---- MODULE Spec2Model ----
(***************************************************************************)
(* A model of the oo7 "spycraft" reactive value graph: the Spook base      *)
(* cell, ReactiveSpook / TransformSpook, TimeSpook and the SpookCache that *)
(* shares cells identified by a UUID between tabs.                         *)
(*                                                                         *)
(* JavaScript runs every handler to completion on one thread, so each      *)
(* public call is one action.  A handler is an operator from a world (the  *)
(* record of all program state) to the world it leaves behind; callbacks   *)
(* that re-enter the library are followed inside the same action.          *)
(***************************************************************************)
EXTENDS Integers, Sequences, FiniteSets, TLC

\* Bounds of the model.
MaxUsers == 1
MaxSym == 3
MaxNum == 2
MaxMapSym == 7
MaxTimeSym == 6
MaxEvents == 2
MaxReactSym == 4
MaxProxySym == 3
MaxObserveSym == 3
MaxDoneSym == 3
MaxDefaultSym == 2
MaxMessages == 1
MaxSubscribers == 2

VARIABLES
    cells,                  \* cell id -> the fields of that Spook object
    storage,                \* the shared localStorage: key -> string
    caches,                 \* tab -> its Spook.cache (regs, sessionId)
    events,                 \* tab -> queue of undelivered 'storage' events
    posted,                 \* tab -> messages posted to window.parent
    privateTestIntervals,   \* TimeSpook's table of test timers: id -> cell
    useTestIntervals,       \* TimeSpook.useTestIntervals
    intervals,              \* the host's timers (setInterval): handle -> cell
    racing,                 \* owner keys claimed by the call before this one
    promises,               \* promise id -> its state, result, _value and reactions
    jobs,                   \* the queue of promise reactions still to run
    parent,                 \* window -> its window.parent (0: none)
    spooks,                 \* the SpookProxy's entries: uuid -> spook, users, notifyKey
    inbox,                  \* window -> messages posted to it by the proxy's window
    nextSym,                \* the next fresh Symbol()
    uses                    \* cell -> use() calls of the application not yet dropped

vars ==
    <<cells, storage, caches, events, posted, privateTestIntervals, useTestIntervals,
      intervals, racing, promises, jobs, parent, spooks, inbox, nextSym, uses>>

----------------------------------------------------------------------------
\* JavaScript values.

Undefined == [t |-> "undefined"]
Null == [t |-> "null"]
NaN == [t |-> "NaN"]
Num(n) == [t |-> "number", n |-> n]
Bool(b) == [t |-> "boolean", b |-> b]
Arr(items) == [t |-> "array", items |-> items]
\* A plain object; its i-th own key holds items[i].
Obj(items) == [t |-> "object", items |-> items]
\* A reference to a Spook object / to a Promise, as an item of a structure.
SpookRef(c) == [t |-> "spook", id |-> c]
Promise(p) == [t |-> "promise", id |-> p]

Numbers == {Num(n) : n \in 1..MaxNum}

\* JSON.stringify: NaN and null both serialise as "null".
RECURSIVE JSON_stringify(_)
RECURSIVE stringifyItems(_)
stringifyItems(items) ==
    IF items = <<>> THEN ""
    ELSE LET h == Head(items)
             s == IF h.t = "undefined" THEN "null" ELSE JSON_stringify(h)
         IN IF Len(items) = 1 THEN s ELSE s \o "," \o stringifyItems(Tail(items))

JSON_stringify(v) ==
    CASE v.t = "undefined" -> "undefined"
      [] v.t = "null" -> "null"
      [] v.t = "NaN" -> "null"
      [] v.t = "number" -> ToString(v.n)
      [] v.t = "boolean" -> IF v.b THEN "true" ELSE "false"
      [] v.t = "array" -> "[" \o stringifyItems(v.items) \o "]"
      [] v.t = "object" -> "{" \o stringifyItems(v.items) \o "}"
      [] OTHER -> "{}"

\* JSON.parse of the strings stringify produces for scalars and for arrays
\* of one number.
JSON_parse(s) ==
    IF s = "null" THEN Null
    ELSE IF s = "true" THEN Bool(TRUE)
    ELSE IF s = "false" THEN Bool(FALSE)
    ELSE IF \E n \in 0..(2 * MaxNum + 2) : ToString(n) = s
         THEN Num(CHOOSE n \in 0..(2 * MaxNum + 2) : ToString(n) = s)
    ELSE IF \E n \in 0..(2 * MaxNum + 2) : "[" \o ToString(n) \o "]" = s
         THEN Arr(<<Num(CHOOSE n \in 0..(2 * MaxNum + 2) : "[" \o ToString(n) \o "]" = s)>>)
    ELSE Undefined

\* A comparison of the values themselves, not of their serialisations.
equivalent_identical(a, b) == a = b

equivalent(a, b) == JSON_stringify(a) = JSON_stringify(b)

----------------------------------------------------------------------------
\* Objects.

NoSpook == 0
NoUuid == ""
NoError == "none"

\* new Spook(mayBeNull, cache): the fields the constructor sets, with the
\* fields subclasses add set to their empty values.
Spook(mayBeNull, uuid, tab) ==
    [ class |-> "Spook",
      _subscribers |-> <<>>, _thens |-> <<>>, _notifies |-> <<>>,
      _ready |-> FALSE, _value |-> Null, _triggering |-> Null,
      _mayBeNull |-> mayBeNull, _users |-> 0, _uuid |-> uuid,
      _defaultTo |-> Undefined,
      \* the class whose isDone the object has: Spook's own, or the one of
      \* Transaction (spycraft-tetsy), which overrides it
      isDone |-> "Spook",
      \* set by the application on a cell that is to bypass Spook.cache
      _noCache |-> FALSE,
      tab |-> tab,
      \* ReactiveSpook / TransformSpook
      _args |-> <<>>, _dependencies |-> <<>>, _resolveDepth |-> 0,
      _notifyKeys |-> <<>>, execute |-> "", owner |-> NoSpook,
      transform |-> "", outResolveDepth |-> 0, latched |-> FALSE, _outSpook |-> NoSpook,
      \* TimeSpook
      interval |-> 0,
      \* LatchSpook: the target, whether the _poll property is still there,
      \* and the Symbol of the notifier on the target (0: undefined)
      _targetSpook |-> NoSpook, _poll |-> FALSE, _notifyId |-> 0,
      \* what initialise acquired and finalise has not released
      resource |-> "idle" ]

\* new ReactiveSpook(args, dependencies, execute, mayBeNull, resolveDepth, cache).
\* execute is "changed" (this.changed, when no function is given), "user"
\* (a function of the application that only records its argument),
\* "transform" (the function TransformSpook passes) or "changedOf" (the
\* function of the cell a TransformSpook makes for a structured result,
\* which calls changed on that TransformSpook, its `owner`).
ReactiveSpook(args, dependencies, execute, mayBeNull, resolveDepth, uuid, tab) ==
    [Spook(mayBeNull, uuid, tab) EXCEPT
        !.class = "ReactiveSpook", !._args = args, !._dependencies = dependencies,
        !.execute = execute, !._resolveDepth = resolveDepth]

\* new TransformSpook(transform, args, dependencies, outResolveDepth,
\*                    resolveDepth, cache, latched, mayBeNull)
TransformSpook(transform, args, dependencies, outDepth, depth, uuid, latched, mayBeNull, tab) ==
    [ReactiveSpook(args, dependencies, "transform", mayBeNull, depth, uuid, tab)
        EXCEPT !.class = "TransformSpook", !.transform = transform,
               !.outResolveDepth = outDepth, !.latched = latched]

\* Spook.all(list) and a.map(transform), with their default arguments.
all(list, tab) == TransformSpook("args", list, <<>>, 3, 3, NoUuid, FALSE, TRUE, tab)
map(a, transform, tab) ==
    TransformSpook(transform, <<SpookRef(a)>>, <<>>, 3, 3, NoUuid, FALSE, TRUE, tab)

\* new TimeSpook(): the constructor polls, which triggers the cell with the
\* time `now`.
TimeSpook(now, tab) ==
    [Spook(TRUE, NoUuid, tab) EXCEPT
        !.class = "TimeSpook", !._ready = TRUE, !._value = now]

Empty == [x \in {} |-> x]

\* new SpookCache(...): one per tab.
\* deferParentPrefix is null ("") unless the tab is a frame with a parent.
SpookCache(sessionId, deferParentPrefix) ==
    [regs |-> Empty, sessionId |-> sessionId, deferParentPrefix |-> deferParentPrefix,
     unloaded |-> FALSE]

\* The tails a UUID may have after a prefix; uuid.startsWith(prefix).
UuidTails == {"", "x", "y"}
startsWith(uuid, prefix) == \E tail \in UuidTails : uuid = prefix \o tail

ValueKey(uuid) == "$_Spooks." \o uuid
OwnerKey(uuid) == "$_Spooks^" \o uuid

\* The whole program state handed through a public call, with what the call
\* has invoked so far (calls), the exception it is unwinding with (threw) and
\* the last value returned to it (ret).  Tabs run at the same time: a call
\* may `overlap` the call another tab has just made, and then read an owner
\* key as it was before that call claimed it (racing); `written` are the
\* owner keys this call claims.
World ==
    [ cells |-> cells, storage |-> storage, caches |-> caches, events |-> events,
      posted |-> posted,
      privateTestIntervals |-> privateTestIntervals,
      useTestIntervals |-> useTestIntervals, intervals |-> intervals, nextSym |-> nextSym,
      racing |-> racing, overlap |-> FALSE, written |-> {},
      promises |-> promises, jobs |-> jobs,
      parent |-> parent, spooks |-> spooks, inbox |-> inbox,
      calls |-> <<>>, threw |-> NoError, ret |-> 0 ]

Threw(w) == w.threw # NoError
Throw(w, message) == IF Threw(w) THEN w ELSE [w EXCEPT !.threw = message]
Log(w, e) == IF Threw(w) THEN w ELSE [w EXCEPT !.calls = Append(@, e)]

\* Assignments to an object's field, to a registration, to the store.
SetCell(w, c, rec) == IF Threw(w) THEN w ELSE [w EXCEPT !.cells[c] = rec]

Remove(f, k) == [x \in (DOMAIN f) \ {k} |-> f[x]]
Put(f, k, v) == [x \in (DOMAIN f) \cup {k} |-> IF x = k THEN v ELSE f[x]]

\* A write to localStorage raises a 'storage' event in every other tab,
\* when it changes the key.
Notified(w, tab, key) ==
    [k \in DOMAIN w.events |->
        IF k = tab \/ w.caches[k].unloaded THEN w.events[k] ELSE Append(w.events[k], key)]

StorageSet(w, tab, key, s) ==
    IF Threw(w) THEN w
    ELSE IF key \in DOMAIN w.storage /\ w.storage[key] = s THEN w
    ELSE [w EXCEPT !.storage = Put(@, key, s), !.events = Notified(w, tab, key)]

StorageDelete(w, tab, key) ==
    IF Threw(w) THEN w
    ELSE IF key \notin DOMAIN w.storage THEN w
    ELSE [w EXCEPT !.storage = Remove(@, key), !.events = Notified(w, tab, key)]

SetReg(w, tab, uuid, reg) ==
    IF Threw(w) THEN w ELSE [w EXCEPT !.caches[tab].regs = Put(@, uuid, reg)]

DeleteReg(w, tab, uuid) ==
    IF Threw(w) THEN w ELSE [w EXCEPT !.caches[tab].regs = Remove(@, uuid)]

\* symbolValues(o): the callbacks of an observer table, in insertion order.
symbolValues(o) == o

WithoutId(o, id) == SelectSeq(o, LAMBDA e : e.id # id)
HasId(o, id) == \E i \in 1..Len(o) : o[i].id = id

\* An entry of _subscribers / _notifies / _thens: the callback registered
\* under Symbol id.  fn "user" is a function of the application, which
\* `does` "nothing", throws, or calls back into the cell it observes
\* (trigger(arg), untie(arg), tie(f) of a function f that does nothing);
\* fn "_notified"
\* is ReactiveSpook._notified bound to cell `target`; fn "SpookProxy" is the
\* function SpookProxy registers on the cell `target` it made for the UUID
\* `does`.
Callback(fn, target, does, arg) ==
    [id |-> 0, fn |-> fn, target |-> target, does |-> does, arg |-> arg]

Event(ev, c, id, arg) == [ev |-> ev, cell |-> c, id |-> id, arg |-> arg]

----------------------------------------------------------------------------
\* What SpookProxy posts (src/packages/spycraft/src/spookProxy.js).

\* The window the SpookProxy listens on, and the cell fromUuid gives for the
\* UUID it knows.
ProxyWindow == 1
Producer == 1
fromUuid(uuid) == IF uuid = "p/x" THEN Producer ELSE NoSpook

prepUpdate(w, uuid, spook) ==
    LET value == IF w.cells[spook]._ready THEN w.cells[spook]._value ELSE Undefined
    IN IF value.t \in {"array", "object"} /\ w.cells[spook]._uuid # NoUuid
       THEN [uuid |-> uuid, valueString |-> JSON_stringify(value)]
       ELSE [uuid |-> uuid, value |-> value]

\* window.postMessage(message, '*') called by the proxy's window.
postTo(w, window, message) ==
    IF Threw(w) THEN w ELSE [w EXCEPT !.inbox[window] = Append(@, message)]

\* entry.users.forEach(u => u.postMessage({ spookCacheUpdate }, '*'))
updateUsers(w, uuid) ==
    LET users == w.spooks[uuid].users
        update == [spookCacheUpdate |-> prepUpdate(w, uuid, w.spooks[uuid].spook)]
    IN IF Threw(w) THEN w
       ELSE [w EXCEPT !.inbox = [window \in DOMAIN w.inbox |->
                w.inbox[window] \o
                [i \in 1..Cardinality({k \in 1..Len(users) : users[k] = window}) |-> update]]]

----------------------------------------------------------------------------
\* Spook (src/unnamed/part_000) and SpookCache.

RECURSIVE call(_, _, _)
RECURSIVE forEach(_, _, _, _), drain(_, _, _), forEachUser(_, _, _, _)

\* callback(...) for one registered callback; `phase` is the table it came
\* from.  Subscribers and thens are passed this._value as it is at the call.
invoke(w, c, entry, phase) ==
    IF Threw(w) THEN w
    ELSE LET arg == IF phase = "notify" THEN Undefined ELSE w.cells[c]._value
             w1 == Log(w, Event(phase, c, entry.id, arg))
         IN CASE entry.fn = "user" /\ entry.does = "trigger" ->
                    call(w1, "trigger", <<c, entry.arg>>)
              [] entry.fn = "user" /\ entry.does = "untie" ->
                    call(w1, "untie", <<c, entry.arg>>)
              [] entry.fn = "user" /\ entry.does = "tie" ->
                    call(w1, "tie", <<c, Callback("user", NoSpook, "nothing", Undefined)>>)
              [] entry.fn = "user" /\ entry.does = "throw" -> Throw(w1, "callback")
              [] entry.fn = "cleanupCallback" -> call(w1, "cleanupCallback", <<c, entry>>)
              [] entry.fn = "_notified" -> call(w1, "_notified", <<entry.target>>)
              [] entry.fn = "_poll" -> call(w1, "_poll", <<entry.target>>)
              [] entry.fn = "promise_done" ->
                    call(w1, "promise_done", <<entry.target, entry.arg, w.cells[c]._value>>)
              [] entry.fn = "SpookProxy" -> updateUsers(w1, entry.does)
              [] OTHER -> w1

forEach(w, c, entries, phase) ==
    IF entries = <<>> \/ Threw(w) THEN w
    ELSE forEach(invoke(w, c, Head(entries), phase), c, Tail(entries), phase)

\* The loop over _thens without its drop().
RECURSIVE drain_undropped(_, _, _)
drain_undropped(w, c, entries) ==
    IF entries = <<>> \/ Threw(w) THEN w
    ELSE drain_undropped(invoke(w, c, Head(entries), "then"), c, Tail(entries))

\* this._thens.forEach(callback => { callback(this._value); this.drop(); })
drain(w, c, entries) ==
    IF entries = <<>> \/ Threw(w) THEN w
    ELSE drain(call(invoke(w, c, Head(entries), "then"), "drop", <<c>>), c, Tail(entries))

\* reset() that tells the cache that the cell has no value.
reset_published(w, c) ==
    IF Threw(w) \/ ~w.cells[c]._ready THEN w
    ELSE call(forEach([w EXCEPT !.cells[c]._ready = FALSE, !.cells[c]._value = Null],
                      c, symbolValues(w.cells[c]._notifies), "notify"),
              "SpookCache_changed", <<w.cells[c].tab, w.cells[c]._uuid, Undefined>>)

\* reset() that tells nobody.
reset_unnotified(w, c) ==
    IF Threw(w) \/ ~w.cells[c]._ready THEN w
    ELSE [w EXCEPT !.cells[c]._ready = FALSE, !.cells[c]._value = Null]

reset(w, c) ==
    IF Threw(w) THEN w
    ELSE IF w.cells[c]._defaultTo # Undefined THEN call(w, "trigger", <<c, w.cells[c]._defaultTo>>)
    ELSE IF w.cells[c]._ready
         THEN forEach([w EXCEPT !.cells[c]._ready = FALSE, !.cells[c]._value = Null],
                      c, symbolValues(w.cells[c]._notifies), "notify")
         ELSE w

changed(w, c, newValue) ==
    IF Threw(w) \/ newValue = Undefined THEN w
    ELSE IF ~w.cells[c]._mayBeNull /\ newValue = Null THEN call(w, "reset", <<c>>)
    ELSE IF ~w.cells[c]._ready \/ ~equivalent(newValue, w.cells[c]._value)
         THEN call(w, "trigger", <<c, newValue>>)
         ELSE w

\* fire with the change-subscribers called before the readiness-notifiers.
fire_subscribersFirst(w, c, newValue) ==
    IF ~w.cells[c]._mayBeNull /\ newValue = Null THEN call(w, "reset", <<c>>)
    ELSE LET w1 == [w EXCEPT !.cells[c]._ready = TRUE, !.cells[c]._value = newValue]
             w2 == forEach(w1, c, symbolValues(w1.cells[c]._subscribers), "tie")
             w3 == forEach(w2, c, symbolValues(w2.cells[c]._notifies), "notify")
             w4 == drain(w3, c, w3.cells[c]._thens)
         IN IF Threw(w4) THEN w4 ELSE [w4 EXCEPT !.cells[c]._thens = <<>>]

\* The body of trigger between setting and clearing _triggering.
fire(w, c, newValue) ==
    IF ~w.cells[c]._mayBeNull /\ newValue = Null THEN call(w, "reset", <<c>>)
    ELSE LET w1 == [w EXCEPT !.cells[c]._ready = TRUE, !.cells[c]._value = newValue]
             w2 == forEach(w1, c, symbolValues(w1.cells[c]._notifies), "notify")
             w3 == forEach(w2, c, symbolValues(w2.cells[c]._subscribers), "tie")
             w4 == drain(w3, c, w3.cells[c]._thens)
         IN IF Threw(w4) THEN w4 ELSE [w4 EXCEPT !.cells[c]._thens = <<>>]

publish(w, c, newValue) ==
    IF Threw(w) \/ w.cells[c]._uuid = NoUuid \/ w.cells[c]._noCache THEN w
    ELSE call(Log(w, Event("Spook.cache.changed", c, 0, newValue)), "SpookCache_changed", <<w.cells[c].tab, w.cells[c]._uuid, newValue>>)

\* trigger that rejects a reentrant call only when it repeats the value the
\* trigger in progress is setting.
trigger_sameValueOnly(w, c, v) ==
    IF Threw(w) THEN w
    ELSE LET newValue == IF v = Undefined THEN w.cells[c]._value ELSE v
         IN IF newValue = Undefined
            THEN Log(w, Event("console.error", c, 0, newValue))
            ELSE IF w.cells[c]._triggering # Null /\ w.cells[c]._triggering.becoming = newValue
            THEN Log(w, Event("console.error", c, 0, newValue))
            ELSE LET w1 == [w EXCEPT !.cells[c]._triggering = [becoming |-> newValue]]
                     w2 == fire(w1, c, newValue)
                     w3 == IF Threw(w2) THEN w2
                           ELSE [w2 EXCEPT !.cells[c]._triggering = Null]
                 IN publish(w3, c, newValue)

\* trigger (newValue = this._value): an undefined argument takes the default.
trigger(w, c, v) ==
    IF Threw(w) THEN w
    ELSE LET newValue == IF v = Undefined THEN w.cells[c]._value ELSE v
         IN IF newValue = Undefined
            THEN Log(w, Event("console.error", c, 0, newValue))
            ELSE IF w.cells[c]._triggering # Null
            THEN Log(w, Event("console.error", c, 0, newValue))
            ELSE LET w1 == [w EXCEPT !.cells[c]._triggering = [becoming |-> newValue]]
                     w2 == fire(w1, c, newValue)
                     w3 == IF Threw(w2) THEN w2
                           ELSE [w2 EXCEPT !.cells[c]._triggering = Null]
                 IN publish(w3, c, newValue)

\* use that initialises on every call, not only at user-count 0.
use_always(w, c) ==
    IF Threw(w) THEN w
    ELSE LET w1 == IF w.cells[c]._uuid = NoUuid \/ w.cells[c]._noCache THEN call(w, "initialise", <<c>>)
                   ELSE call(w, "SpookCache_initialise", <<w.cells[c].tab, w.cells[c]._uuid, c>>)
         IN IF Threw(w1) THEN w1 ELSE [w1 EXCEPT !.cells[c]._users = @ + 1]

use(w, c) ==
    IF Threw(w) THEN w
    ELSE LET w1 == IF w.cells[c]._users # 0 THEN w
                   ELSE IF w.cells[c]._uuid = NoUuid \/ w.cells[c]._noCache THEN call(w, "initialise", <<c>>)
                   ELSE call(
                           Log(w, Event("Spook.cache.initialise", c, 0, Undefined)), "SpookCache_initialise", <<w.cells[c].tab, w.cells[c]._uuid, c>>)
         IN IF Threw(w1) THEN w1 ELSE [w1 EXCEPT !.cells[c]._users = @ + 1]

\* drop without the underflow check.
drop_unchecked(w, c) ==
    IF Threw(w) THEN w
    ELSE LET w1 == [w EXCEPT !.cells[c]._users = @ - 1]
         IN IF w1.cells[c]._users # 0 THEN w1
            ELSE IF w1.cells[c]._uuid = NoUuid \/ w1.cells[c]._noCache THEN call(w1, "finalise", <<c>>)
            ELSE call(w1, "SpookCache_finalise", <<w1.cells[c].tab, w1.cells[c]._uuid, c>>)

drop(w, c) ==
    IF Threw(w) THEN w
    ELSE IF w.cells[c]._users = 0
    THEN Throw(w, "mismatched use()/drop(): drop() called once more than expected!")
    ELSE LET w1 == [w EXCEPT !.cells[c]._users = @ - 1]
         IN IF w1.cells[c]._users # 0 THEN w1
            ELSE IF w1.cells[c]._uuid = NoUuid \/ w1.cells[c]._noCache THEN call(w1, "finalise", <<c>>)
            ELSE call(Log(w1, Event("Spook.cache.finalise", c, 0, Undefined)), "SpookCache_finalise", <<w1.cells[c].tab, w1.cells[c]._uuid, c>>)

\* initialise / finalise of the class of c.  `resource` records that the
\* hook has run: what a cell holds between initialise and finalise.
initialise(w, c) ==
    IF Threw(w) THEN w
    ELSE call(Log([w EXCEPT !.cells[c].resource = IF @ = "idle" THEN "held" ELSE "broken"],
                  Event("initialise", c, 0, Undefined)),
              IF w.cells[c].class = "TransformSpook" THEN "ReactiveSpook_initialise"
              ELSE w.cells[c].class \o "_initialise",
              <<c>>)

finalise(w, c) ==
    IF Threw(w) THEN w
    ELSE call(Log([w EXCEPT !.cells[c].resource = IF @ = "held" THEN "idle" ELSE "broken"],
                  Event("finalise", c, 0, Undefined)),
              w.cells[c].class \o "_finalise", <<c>>)

notify(w, c, callback) ==
    LET w1 == call(w, "use", <<c>>)
        id == w1.nextSym
        entry == [callback EXCEPT !.id = id]
        w2 == IF Threw(w1) THEN w1
              ELSE [w1 EXCEPT !.nextSym = @ + 1, !.cells[c]._notifies = Append(@, entry)]
        w3 == IF w2.cells[c]._ready THEN invoke(w2, c, entry, "notify") ELSE w2
    IN IF Threw(w3) THEN w3 ELSE [w3 EXCEPT !.ret = id]

unnotify(w, c, id) ==
    IF Threw(w) THEN w
    ELSE IF HasId(w.cells[c]._notifies, id)
    THEN call([w EXCEPT !.cells[c]._notifies = WithoutId(@, id)], "drop", <<c>>)
    ELSE Log(w, Event("console.warn", c, id, Undefined))

tie(w, c, callback) ==
    LET w1 == call(w, "use", <<c>>)
        id == w1.nextSym
        entry == [callback EXCEPT !.id = id]
        w2 == IF Threw(w1) THEN w1
              ELSE [w1 EXCEPT !.nextSym = @ + 1, !.cells[c]._subscribers = Append(@, entry)]
        w3 == IF w2.cells[c]._ready THEN invoke(w2, c, entry, "tie") ELSE w2
    IN IF Threw(w3) THEN w3 ELSE [w3 EXCEPT !.ret = id]

untie(w, c, id) ==
    IF Threw(w) THEN w
    ELSE IF HasId(w.cells[c]._subscribers, id)
    THEN call(Log([w EXCEPT !.cells[c]._subscribers = WithoutId(@, id)],
                  Event("untie", c, id, Undefined)), "drop", <<c>>)
    ELSE Log(w, Event("console.warn", c, id, Undefined))

defaultTo(w, c, defaultValue) ==
    IF Threw(w) THEN w
    ELSE IF ~w.cells[c]._ready
    THEN call([w EXCEPT !.cells[c]._defaultTo = defaultValue], "trigger", <<c, defaultValue>>)
    ELSE [w EXCEPT !.cells[c]._defaultTo = defaultValue]

\* isDone (s) of the class named by the cell: Spook's returns false;
\* Transaction's is !!(s.failed || s.confirmed) for a status object
\* { failed, confirmed }, and reading s.failed of null or undefined throws.
isDone(w, c, s) ==
    /\ w.cells[c].isDone = "Transaction"
    /\ s.t = "object"
    /\ \E i \in 1..Len(s.items) : s.items[i].t \notin {"undefined", "null"}

\* cleanupCallback of done(callback): `id` is the variable of done() that
\* the closure reads, undefined until tie() has returned ("unset").
cleanupCallback(w, c, entry) ==
    IF Threw(w) THEN w
    ELSE IF w.cells[c].isDone = "Transaction" /\ w.cells[c]._value.t \in {"undefined", "null"}
    THEN Throw(w, "TypeError")
    ELSE IF isDone(w, c, w.cells[c]._value)
    THEN call(Log(w, Event("done", c, entry.id, w.cells[c]._value)), "untie",
              <<c, IF entry.does = "unset" THEN 0 ELSE entry.id>>)
    ELSE w

done(w, c) ==
    IF Threw(w) THEN w
    ELSE IF w.cells[c].isDone = "undefined"
    THEN Throw(w, "Cannot call done() on Spook that has no implementation of isDone.")
    ELSE LET w1 == call(w, "tie", <<c, Callback("cleanupCallback", c, "unset", Undefined)>>)
         IN IF Threw(w1) THEN w1
            ELSE [w1 EXCEPT !.cells[c]._subscribers =
                     [i \in 1..Len(@) |-> IF @[i].id = w1.ret THEN [@[i] EXCEPT !.does = "set"]
                                            ELSE @[i]]]

\* then that queues the function without a use().
then_unused(w, c, callback) ==
    LET entry == [callback EXCEPT !.id = w.nextSym]
        w2 == IF Threw(w) THEN w ELSE [w EXCEPT !.nextSym = @ + 1]
    IN IF Threw(w2) THEN w2
       ELSE IF w2.cells[c]._ready THEN invoke(w2, c, entry, "then")
       ELSE [w2 EXCEPT !.cells[c]._thens = Append(@, entry)]

\* The queued function is given a Symbol of its own here, to tell the
\* functions apart in `calls`; the program has no handle on it.
then(w, c, callback) ==
    LET w1 == call(w, "use", <<c>>)
        entry == [callback EXCEPT !.id = w1.nextSym]
        w2 == IF Threw(w1) THEN w1 ELSE [w1 EXCEPT !.nextSym = @ + 1]
    IN IF Threw(w2) THEN w2
       ELSE IF w2.cells[c]._ready THEN call(invoke(w2, c, entry, "then"), "drop", <<c>>)
       ELSE [w2 EXCEPT !.cells[c]._thens = Append(@, entry)]

\* SpookCache (src/packages/spycraft/src/notReadySpook.js, from line 67).

Reg(w, tab, uuid) == w.caches[tab].regs[uuid]
HasReg(w, tab, uuid) == uuid \in DOMAIN w.caches[tab].regs
\* postMessage that sends nothing.
postMessage_unsent(w, tab, message) == w

postMessage(w, tab, message) ==
    IF Threw(w) THEN w ELSE [w EXCEPT !.posted[tab] = Append(@, message)]

\* item.users.forEach(spook => spook.changed(value)) / spook.reset()
forEachUser(w, users, does, value) ==
    IF users = <<>> \/ Threw(w) THEN w
    ELSE forEachUser(IF does = "changed" THEN call(w, "changed", <<Head(users), value>>)
                     ELSE call(w, "reset", <<Head(users)>>),
                     Tail(users), does, value)

\* initialise that registers the cell without giving it a value.
SpookCache_initialise_unrestored(w, tab, uuid, spook) ==
    IF Threw(w) THEN w
    ELSE IF ~HasReg(w, tab, uuid)
    THEN call(SetReg(w, tab, uuid, [owned |-> FALSE, deferred |-> FALSE,
                                    users |-> <<spook>>, primary |-> NoSpook]),
              "ensureActive", <<tab, uuid>>)
    ELSE IF Reg(w, tab, uuid).primary = spook
    THEN SetReg(w, tab, uuid, [Reg(w, tab, uuid) EXCEPT !.owned = TRUE])
    ELSE SetReg(w, tab, uuid, [Reg(w, tab, uuid) EXCEPT !.users = Append(@, spook)])

SpookCache_initialise(w, tab, uuid, spook) ==
    IF Threw(w) THEN w
    ELSE IF ~HasReg(w, tab, uuid)
    THEN LET w1 == SetReg(w, tab, uuid,
                     [owned |-> FALSE, deferred |-> FALSE, users |-> <<spook>>,
                      primary |-> NoSpook])
             key == ValueKey(uuid)
             w2 == IF key \in DOMAIN w1.storage
                   THEN call(w1, "changed", <<spook, JSON_parse(w1.storage[key])>>)
                   ELSE w1
         IN call(w2, "ensureActive", <<tab, uuid>>)
    ELSE IF Reg(w, tab, uuid).primary = spook
    THEN LET w1 == IF Reg(w, tab, uuid).owned
                   THEN Log(w, Event("console.error", spook, 0, Undefined))
                   ELSE w
         IN SetReg(w1, tab, uuid, [Reg(w1, tab, uuid) EXCEPT !.owned = TRUE])
    ELSE LET item == Reg(w, tab, uuid)
             w1 == IF item.primary = NoSpook /\ ~item.deferred
                   THEN Log(w, Event("console.error", spook, 0, Undefined))
                   ELSE w
             w2 == SetReg(w1, tab, uuid, [item EXCEPT !.users = Append(@, spook)])
             equivSpook == IF item.primary # NoSpook THEN item.primary
                           ELSE Reg(w2, tab, uuid).users[1]
         IN IF w2.cells[equivSpook]._ready
            THEN call(w2, "changed", <<spook, w2.cells[equivSpook]._value>>)
            ELSE w2

\* checkConsistency's condition, for one registration.
Inconsistent(w, tab, uuid) ==
    LET item == Reg(w, tab, uuid)
        key == OwnerKey(uuid)
    IN \/ /\ item.primary = NoSpook
          /\ ~item.deferred
          /\ Len(item.users) > 0
          /\ (key \notin DOMAIN w.storage \/ w.storage[key] = w.caches[tab].sessionId)
       \/ (item.primary = NoSpook /\ item.owned)

SpookCache_changed(w, tab, uuid, value) ==
    IF Threw(w) THEN w
    ELSE IF /\ HasReg(w, tab, uuid)
            /\ OwnerKey(uuid) \in DOMAIN w.storage
            /\ w.storage[OwnerKey(uuid)] = w.caches[tab].sessionId
    THEN LET key == ValueKey(uuid)
             w0 == Log(w, Event("storage", NoSpook, 0, value))
         IN IF value = Undefined
            THEN forEachUser(StorageDelete(w0, tab, key),
                             Reg(w0, tab, uuid).users, "reset", value)
            ELSE forEachUser(StorageSet(w0, tab, key, JSON_stringify(value)),
                             Reg(w0, tab, uuid).users, "changed", value)
    ELSE w

\* `let keepAround = true`: a finalised primary is kept, not finalised.
keepAround == TRUE

SpookCache_finalise(w, tab, uuid, spook) ==
    IF Threw(w) THEN w
    ELSE IF ~HasReg(w, tab, uuid)
    THEN Log(w, Event("console.error", spook, 0, Undefined))
    ELSE LET item == Reg(w, tab, uuid)
             w1 == IF item.primary = spook
                   THEN IF keepAround
                        THEN SetReg(w, tab, uuid, [item EXCEPT !.owned = FALSE])
                        ELSE LET w2 == SetReg(call(w, "finalise", <<item.primary>>), tab, uuid,
                                              [item EXCEPT !.primary = NoSpook])
                             IN IF Len(item.users) = 0
                                THEN IF /\ OwnerKey(uuid) \in DOMAIN w2.storage
                                        /\ w2.storage[OwnerKey(uuid)] = w2.caches[tab].sessionId
                                     THEN StorageDelete(w2, tab, OwnerKey(uuid))
                                     ELSE w2
                                ELSE call(w2, "ensureActive", <<tab, uuid>>)
                   ELSE LET users == SelectSeq(item.users, LAMBDA b : b # spook)
                            w2 == SetReg(w, tab, uuid, [item EXCEPT !.users = users])
                        IN IF Len(users) = 0 /\ item.deferred
                           THEN SetReg(postMessage(w2, tab, [dropSpook |-> uuid]), tab, uuid,
                                       [Reg(w2, tab, uuid) EXCEPT !.deferred = FALSE])
                           ELSE w2
         IN IF Threw(w1) \/ ~HasReg(w1, tab, uuid) THEN w1
            ELSE LET left == Reg(w1, tab, uuid)
                 IN IF left.primary = NoSpook /\ ~left.deferred /\ Len(left.users) = 0
                    THEN DeleteReg(w1, tab, uuid)
                    ELSE w1

\* !this.storage[key], read before another tab's claim of the key that
\* this call overlaps.
Stale(w, tab, key) ==
    w.overlap /\ \E r \in w.racing : r.tab # tab /\ r.key = key

\* this.storage[key] = this.sessionId, which a call of another tab may overlap.
claim(w, tab, key, sessionId) ==
    IF Threw(w) THEN w
    ELSE [StorageSet(w, tab, key, sessionId) EXCEPT
             !.written = IF DOMAIN w.caches = {tab} THEN @
                         ELSE @ \cup {[tab |-> tab, key |-> key]}]

\* A cache that never takes a registration over.
ensureActive_idle(w, tab, uuid) == w

\* ensureActive (uuid, key = '$_Spooks^' + uuid)
ensureActive(w, tab, uuid) ==
    IF Threw(w) \/ ~HasReg(w, tab, uuid) THEN w
    ELSE LET item == Reg(w, tab, uuid)
             key == OwnerKey(uuid)
             \* would-be owners (users): no need for the primary any more
             w1 == IF Len(item.users) > 0 /\ item.primary # NoSpook /\ ~item.owned
                   THEN LET w0 == call(w, "finalise", <<item.primary>>)
                        IN SetReg(w0, tab, uuid,
                                  [Reg(w0, tab, uuid) EXCEPT !.primary = NoSpook,
                                                             !.owned = FALSE])
                   ELSE w
         IN IF Threw(w1) THEN w1
            ELSE LET item1 == Reg(w1, tab, uuid)
                 IN IF Len(item1.users) > 0 /\ item1.primary = NoSpook /\ ~item1.deferred
                    THEN LET w2 == IF item1.owned
                                   THEN Log(w1, Event("console.error", NoSpook, 0, Undefined))
                                   ELSE w1
                             cache == w2.caches[tab]
                         IN IF /\ cache.deferParentPrefix # ""
                               /\ startsWith(uuid, cache.deferParentPrefix)
                            THEN postMessage(
                                    SetReg(w2, tab, uuid, [item1 EXCEPT !.deferred = TRUE]),
                                    tab, [useSpook |-> uuid])
                            ELSE LET w3 == IF key \notin DOMAIN w2.storage \/ Stale(w2, tab, key)
                                           THEN claim(w2, tab, key, cache.sessionId)
                                           ELSE w2
                                 IN IF w3.storage[key] = cache.sessionId
                                    THEN LET users == item1.users
                                             primary == users[Len(users)]
                                         IN call(
                                               SetReg(w3, tab, uuid,
                                                  [item1 EXCEPT
                                                     !.primary = primary,
                                                     !.users = SubSeq(users, 1, Len(users) - 1),
                                                     !.owned = TRUE]), "initialise", <<primary>>)
                                    ELSE w3
                    ELSE w1

\* onStorageChanged that only looks at the owner keys.
onStorageChanged_ownerOnly(w, tab, key) ==
    IF Threw(w) THEN w
    ELSE IF \E uuid \in DOMAIN w.caches[tab].regs : key = OwnerKey(uuid)
    THEN call(w, "ensureActive",
              <<tab, CHOOSE u \in DOMAIN w.caches[tab].regs : key = OwnerKey(u)>>)
    ELSE w

\* onStorageChanged (e), for the event of a change of e.key.
onStorageChanged(w, tab, key) ==
    IF Threw(w) THEN w
    ELSE IF \E uuid \in DOMAIN w.caches[tab].regs : key = ValueKey(uuid)
    THEN LET uuid == CHOOSE u \in DOMAIN w.caches[tab].regs : key = ValueKey(u)
         IN IF key \notin DOMAIN w.storage
            THEN forEachUser(w, Reg(w, tab, uuid).users, "reset", Undefined)
            ELSE forEachUser(w, Reg(w, tab, uuid).users, "changed",
                             JSON_parse(w.storage[key]))
    ELSE IF \E uuid \in DOMAIN w.caches[tab].regs : key = OwnerKey(uuid)
    THEN call(w, "ensureActive",
              <<tab, CHOOSE u \in DOMAIN w.caches[tab].regs : key = OwnerKey(u)>>)
    ELSE w

\* onUnload (): Object.keys(this.regs).forEach(...); this.regs = {}
RECURSIVE unloadEach(_, _, _)
unloadEach(w, tab, uuids) ==
    IF uuids = {} \/ Threw(w) THEN w
    ELSE LET uuid == CHOOSE u \in uuids : TRUE
         IN unloadEach(
               IF Reg(w, tab, uuid).deferred THEN postMessage(w, tab, [dropSpook |-> uuid])
               ELSE IF /\ OwnerKey(uuid) \in DOMAIN w.storage
                       /\ w.storage[OwnerKey(uuid)] = w.caches[tab].sessionId
               THEN StorageDelete(w, tab, OwnerKey(uuid))
               ELSE w,
               tab, uuids \ {uuid})

\* The window is gone once it has unloaded: it gets no more events.
onUnload(w, tab) ==
    IF Threw(w) THEN w
    ELSE [unloadEach(w, tab, DOMAIN w.caches[tab].regs) EXCEPT
             !.caches[tab].regs = Empty, !.caches[tab].unloaded = TRUE,
             !.events[tab] = <<>>]

\* reconstruct (updateMessage, spook), with JSON.parse as spook._parse.
reconstruct(updateMessage) ==
    IF "valueString" \in DOMAIN updateMessage /\ updateMessage.valueString # ""
    THEN JSON_parse(updateMessage.valueString)
    ELSE IF "value" \in DOMAIN updateMessage THEN updateMessage.value ELSE Undefined

\* onMessage (e) of the SpookCache of `tab`, with e.source and e.data.
SpookCache_onMessage(w, tab, source, data) ==
    IF Threw(w) \/ source # w.parent[tab] \/ "spookCacheUpdate" \notin DOMAIN data THEN w
    ELSE IF ~HasReg(w, tab, data.spookCacheUpdate.uuid) THEN w
    ELSE IF Reg(w, tab, data.spookCacheUpdate.uuid).users = <<>> THEN w
    ELSE IF reconstruct(data.spookCacheUpdate) # Undefined
    THEN forEachUser(w, Reg(w, tab, data.spookCacheUpdate.uuid).users, "changed",
                     reconstruct(data.spookCacheUpdate))
    ELSE forEachUser(w, Reg(w, tab, data.spookCacheUpdate.uuid).users, "reset", Undefined)

----------------------------------------------------------------------------
\* SpookProxy (src/packages/spycraft/src/spookProxy.js).

\* e.data.useSpook from the window `source`.
useSpook(w, source, uuid) ==
    LET reply(x) == IF Threw(x) THEN x
                    ELSE postTo(x, source,
                            [spookCacheUpdate |-> prepUpdate(x, uuid, x.spooks[uuid].spook)])
        created == [w EXCEPT !.spooks = Put(@, uuid,
                       [spook |-> fromUuid(uuid), users |-> <<source>>, notifyKey |-> 0])]
        notified == call(created, "notify",
                         <<fromUuid(uuid), Callback("SpookProxy", fromUuid(uuid), uuid, Undefined)>>)
    IN IF uuid \in DOMAIN w.spooks
       THEN reply([(IF \E i \in 1..Len(w.spooks[uuid].users) : w.spooks[uuid].users[i] = source
                    THEN Log(w, Event("console.warn", NoSpook, 0, Undefined))
                    ELSE w) EXCEPT !.spooks[uuid].users = Append(@, source)])
       ELSE IF fromUuid(uuid) # NoSpook
       THEN reply(IF Threw(notified) THEN notified
                  ELSE [notified EXCEPT !.spooks[uuid].notifyKey = notified.ret])
       ELSE postTo(Log(w, Event("console.warn", NoSpook, 0, Undefined)), source,
                   [spookUnknown |-> [uuid |-> uuid]])

\* dropSpook without the unnotify of the entry it retires.
dropSpook_unretired(w, source, uuid) ==
    IF uuid \notin DOMAIN w.spooks THEN w
    ELSE IF SelectSeq(w.spooks[uuid].users, LAMBDA u : u # source) # <<>>
    THEN [w EXCEPT !.spooks[uuid].users = SelectSeq(@, LAMBDA u : u # source)]
    ELSE [w EXCEPT !.spooks = Remove(@, uuid)]

\* e.data.dropSpook from the window `source`.
dropSpook(w, source, uuid) ==
    IF uuid \notin DOMAIN w.spooks THEN Log(w, Event("console.warn", NoSpook, 0, Undefined))
    ELSE LET entry == w.spooks[uuid]
             at == {i \in 1..Len(entry.users) : entry.users[i] = source}
             i == IF at = {} THEN 0 ELSE CHOOSE k \in at : \A j \in at : k <= j
             users == [k \in 1..(Len(entry.users) - (IF i = 0 THEN 0 ELSE 1)) |->
                          entry.users[IF i = 0 \/ k < i THEN k ELSE k + 1]]
             w1 == [w EXCEPT !.spooks[uuid].users = users]
         IN IF users # <<>> THEN w1
            ELSE LET w2 == call(w1, "unnotify", <<entry.spook, entry.notifyKey>>)
                 IN IF Threw(w2) THEN w2 ELSE [w2 EXCEPT !.spooks = Remove(@, uuid)]

\* onMessage (e) of the SpookProxy, with e.source and e.data.
SpookProxy_onMessage(w, source, data) ==
    IF Threw(w) THEN w
    ELSE IF w.parent[source] # ProxyWindow
    THEN Log(w, Event("console.warn", NoSpook, 0, Undefined))
    ELSE IF "helloSpookProxy" \in DOMAIN data
    THEN postTo(w, source, [spookProxyInfo |-> [deferParentPrefix |-> "p/"]])
    ELSE IF "useSpook" \in DOMAIN data THEN useSpook(w, source, data.useSpook)
    ELSE IF "dropSpook" \in DOMAIN data THEN dropSpook(w, source, data.dropSpook)
    ELSE w

----------------------------------------------------------------------------
\* ReactiveSpook (src/packages/spycraft/src/reactiveSpook.js).

RECURSIVE isReady(_, _, _), resolved(_, _, _), Active(_, _)
RECURSIVE deepNotify(_, _, _, _), deepNotifyEach(_, _, _, _)
RECURSIVE deepUnnotify(_, _, _, _), deepUnnotifyEach(_, _, _, _)
RECURSIVE notifyEach(_, _, _), unnotifyEach(_, _, _)

isReady(w, resolvable, depthLeft) ==
    IF resolvable.t = "spook" THEN w.cells[resolvable.id]._ready
    ELSE IF resolvable.t = "promise" THEN w.promises[resolvable.id]._value # Undefined
    ELSE IF depthLeft > 0 /\ resolvable.t \in {"array", "object"}
    THEN \A i \in 1..Len(resolvable.items) : isReady(w, resolvable.items[i], depthLeft - 1)
    ELSE TRUE

HasItem(structure, kinds) ==
    \E i \in 1..Len(structure.items) : structure.items[i].t \in kinds

isArrayWithNonPlainItems(array, depthLeft) ==
    /\ depthLeft > 0
    /\ array.t = "array"
    /\ \/ depthLeft = 1 /\ HasItem(array, {"spook", "promise"})
       \/ depthLeft > 1 /\ HasItem(array, {"spook", "promise", "array", "object"})

isObjectWithNonPlainItems(object, depthLeft) ==
    /\ depthLeft > 0
    /\ object.t = "object"
    /\ \/ depthLeft = 1 /\ HasItem(object, {"spook", "promise"})
       \/ depthLeft > 1 /\ HasItem(object, {"spook", "promise", "array", "object"})

\* The value resolved throws at, in place of the value it returns.
InternalError == [t |-> "Internal error"]

resolved(w, resolvable, depthLeft) ==
    IF resolvable.t = "spook"
    THEN IF w.cells[resolvable.id]._ready /\ w.cells[resolvable.id]._value # Undefined
         THEN w.cells[resolvable.id]._value
         ELSE InternalError
    ELSE IF resolvable.t = "promise"
    THEN IF w.promises[resolvable.id]._value # Undefined
         THEN w.promises[resolvable.id]._value
         ELSE InternalError
    ELSE IF \/ isArrayWithNonPlainItems(resolvable, depthLeft)
            \/ isObjectWithNonPlainItems(resolvable, depthLeft)
    THEN [t |-> resolvable.t,
          items |-> [i \in 1..Len(resolvable.items) |->
                        resolved(w, resolvable.items[i], depthLeft - 1)]]
    ELSE resolvable

\* notifyKeys.push(...) of the Symbol the notify just made returned.
pushKey(w, c) ==
    IF Threw(w) THEN w ELSE [w EXCEPT !.cells[c]._notifyKeys = Append(@, w.ret)]

\* notifyKeys.shift(), with Symbol 0 for the undefined an empty array gives.
shifted(w, c) == IF w.cells[c]._notifyKeys = <<>> THEN 0 ELSE Head(w.cells[c]._notifyKeys)
shift(w, c) ==
    IF Threw(w) \/ w.cells[c]._notifyKeys = <<>> THEN w
    ELSE [w EXCEPT !.cells[c]._notifyKeys = Tail(@)]

\* this._notified.bind(this)
bound_notified(c) == Callback("_notified", c, "nothing", Undefined)

\* resolvable.then(resolved => { resolvable._value = resolved; callback(); })
\* of the host: the reaction waits for the promise to be fulfilled, and is
\* queued as a job at once when it already is.
Promise_then(w, p, c) ==
    IF Threw(w) THEN w
    ELSE IF w.promises[p].state = "pending"
    THEN [w EXCEPT !.promises[p].reactions = Append(@, c)]
    ELSE [w EXCEPT !.jobs = Append(@, [promise |-> p, callback |-> c])]

\* The reaction deepNotify registered, run as a job of the host.
reaction(w, p, c) ==
    call([w EXCEPT !.promises[p]._value = w.promises[p].result], "_notified", <<c>>)

\* What deepNotify returns: whether it has met a Spook or a Promise.
Active(resolvable, depthLeft) ==
    IF resolvable.t \in {"spook", "promise"} THEN TRUE
    ELSE IF \/ isArrayWithNonPlainItems(resolvable, depthLeft)
            \/ isObjectWithNonPlainItems(resolvable, depthLeft)
    THEN \E i \in 1..Len(resolvable.items) : Active(resolvable.items[i], depthLeft - 1)
    ELSE FALSE

deepNotify(w, c, resolvable, depthLeft) ==
    IF Threw(w) THEN w
    ELSE IF resolvable.t = "spook"
    THEN pushKey(call(w, "notify", <<resolvable.id, bound_notified(c)>>), c)
    ELSE IF resolvable.t = "promise" THEN Promise_then(w, resolvable.id, c)
    ELSE IF \/ isArrayWithNonPlainItems(resolvable, depthLeft)
            \/ isObjectWithNonPlainItems(resolvable, depthLeft)
    THEN deepNotifyEach(w, c, resolvable.items, depthLeft - 1)
    ELSE w

deepNotifyEach(w, c, items, depthLeft) ==
    IF items = <<>> \/ Threw(w) THEN w
    ELSE deepNotifyEach(deepNotify(w, c, Head(items), depthLeft), c, Tail(items), depthLeft)

deepUnnotify(w, c, resolvable, depthLeft) ==
    IF Threw(w) THEN w
    ELSE IF resolvable.t = "spook"
    THEN call(shift(w, c), "unnotify", <<resolvable.id, shifted(w, c)>>)
    ELSE IF \/ isArrayWithNonPlainItems(resolvable, depthLeft)
            \/ isObjectWithNonPlainItems(resolvable, depthLeft)
    THEN deepUnnotifyEach(w, c, resolvable.items, depthLeft - 1)
    ELSE w

deepUnnotifyEach(w, c, items, depthLeft) ==
    IF items = <<>> \/ Threw(w) THEN w
    ELSE deepUnnotifyEach(deepUnnotify(w, c, Head(items), depthLeft),
                          c, Tail(items), depthLeft)

\* this._dependencies.forEach(dependency => ...notify / unnotify...)
notifyEach(w, c, dependencies) ==
    IF dependencies = <<>> \/ Threw(w) THEN w
    ELSE notifyEach(pushKey(call(w, "notify", <<Head(dependencies), bound_notified(c)>>), c),
                    c, Tail(dependencies))

unnotifyEach(w, c, dependencies) ==
    IF dependencies = <<>> \/ Threw(w) THEN w
    ELSE unnotifyEach(call(shift(w, c), "unnotify", <<Head(dependencies), shifted(w, c)>>),
                      c, Tail(dependencies))

\* The transforms of the model: (x, y) => x + y and (...args) => args.
ToNumber(v) ==
    CASE v.t = "number" -> v.n
      [] v.t = "boolean" -> IF v.b THEN 1 ELSE 0
      [] OTHER -> 0

plus(x, y) ==
    IF {x.t, y.t} \subseteq {"number", "boolean", "null"}
    THEN Num(ToNumber(x) + ToNumber(y))
    ELSE NaN

\* The value x at nesting level k of arrays and objects: [x], [{foo: x}],
\* [{foo: [x]}].
nest(x, k) ==
    CASE k = 1 -> Arr(<<x>>)
      [] k = 2 -> Arr(<<Obj(<<x>>)>>)
      [] OTHER -> Arr(<<Obj(<<Arr(<<x>>)>>)>>)

\* The cell that the functions () => [t], () => [{foo: t}] return.
Returned == 1

\* The cells that the function x => (x === 1 ? first : second) returns.
First == 2
Second == 3

apply(transform, resolvedArguments) ==
    CASE transform = "select" ->
            IF resolvedArguments[1] = Num(1) THEN SpookRef(First) ELSE SpookRef(Second)
      [] transform = "level1" -> nest(SpookRef(Returned), 1)
      [] transform = "level2" -> nest(SpookRef(Returned), 2)
      [] transform = "level3" -> nest(SpookRef(Returned), 3)
      [] transform = "plus" ->
            plus(IF Len(resolvedArguments) >= 1 THEN resolvedArguments[1] ELSE Undefined,
                 IF Len(resolvedArguments) >= 2 THEN resolvedArguments[2] ELSE Undefined)
      [] transform = "args" -> Arr(resolvedArguments)
      [] OTHER -> Undefined

RECURSIVE isPlain(_, _)
\* isPlain looking at the value itself only, whatever the depth.
isPlain_flat(value, depthLeft) == value.t \notin {"spook", "promise"}

isPlain(value, depthLeft) ==
    IF value.t \in {"spook", "promise"} THEN FALSE
    ELSE IF depthLeft > 0 /\ value.t \in {"array", "object"}
    THEN \A i \in 1..Len(value.items) : isPlain(value.items[i], depthLeft - 1)
    ELSE TRUE

\* TransformSpook (src/unnamed/part_003).
setOut(w, c, newOutSpook) ==
    IF Threw(w) THEN w ELSE [w EXCEPT !.cells[c]._outSpook = newOutSpook]

\* dropOut that forgets the cell without dropping it.
dropOut_kept(w, c) == setOut(w, c, NoSpook)

dropOut(w, c) ==
    IF Threw(w) \/ w.cells[c]._outSpook = NoSpook THEN w
    ELSE setOut(call(w, "drop", <<w.cells[c]._outSpook>>), c, NoSpook)

\* this.useOut(new ReactiveSpook([result], [], ..., false, outResolveDepth))
newSpook(w) == Cardinality(DOMAIN w.cells) + 1
useOut(w, c, result) ==
    IF Threw(w) THEN w
    ELSE setOut(
            call([w EXCEPT !.cells = Put(@, newSpook(w),
                    [ReactiveSpook(<<result>>, <<>>, "changedOf", FALSE,
                                   w.cells[c].outResolveDepth, NoUuid, w.cells[c].tab)
                        EXCEPT !.owner = c])],
                 "use", <<newSpook(w)>>),
            c, newSpook(w))

\* A transform that returns a new Promise at each call ("defer": the Promise
\* is to be fulfilled with the first argument): the Promise it makes, and
\* what the call returns.
newPromise(w) == Cardinality(DOMAIN w.promises) + 1
makePromise(w, transform, resolvedArguments) ==
    IF Threw(w) \/ transform # "defer" THEN w
    ELSE [w EXCEPT !.promises =
             Put(@, newPromise(w), [state |-> "pending", result |-> Undefined,
                                    _value |-> Undefined, reactions |-> <<>>,
                                    of |-> resolvedArguments[1]])]

applied(w, transform, resolvedArguments) ==
    IF transform = "defer" THEN Promise(newPromise(w)) ELSE apply(transform, resolvedArguments)

\* result.then(this.changed.bind(this)) of the host
Promise_then_changed(w, p, c) ==
    IF Threw(w) THEN w
    ELSE IF w.promises[p].state = "pending"
    THEN [w EXCEPT !.promises[p].reactions = Append(@, [changed |-> c])]
    ELSE [w EXCEPT !.jobs = Append(@, [promise |-> p, callback |-> [changed |-> c]])]

\* The function TransformSpook passes to ReactiveSpook as execute.
TransformSpook_execute(w, c, result) ==
    IF Threw(w) THEN w
    ELSE IF result = Undefined
    THEN call(Log(w, Event("console.warn", c, 0, Undefined)), "reset", <<c>>)
    ELSE IF result.t = "promise"
    THEN Promise_then_changed(IF w.cells[c].latched THEN w ELSE call(w, "reset", <<c>>),
                              result.id, c)
    ELSE IF ~isPlain(result, w.cells[c].outResolveDepth)
    THEN useOut(IF w.cells[c].latched THEN w ELSE call(w, "reset", <<c>>), c, result)
    ELSE call(w, "changed", <<c, result>>)

execute(w, c, resolvedArgs) ==
    IF Threw(w) THEN w
    ELSE IF InternalError \in {resolvedArgs[i] : i \in 1..Len(resolvedArgs)}
    THEN Throw(w, "Internal error: Unready Spook being resolved")
    ELSE CASE w.cells[c].execute = "transform" ->
                 TransformSpook_execute(
                     makePromise(dropOut(Log(w, Event("execute", c, 0, Arr(resolvedArgs))), c),
                                 w.cells[c].transform, resolvedArgs),
                     c, applied(w, w.cells[c].transform, resolvedArgs))
           [] w.cells[c].execute = "user" -> Log(w, Event("execute", c, 0, Arr(resolvedArgs)))
           [] w.cells[c].execute = "changedOf" ->
                 call(Log(w, Event("execute", c, 0, Arr(resolvedArgs))),
                      "changed", <<w.cells[c].owner, resolvedArgs[1]>>)
           [] OTHER -> call(Log(w, Event("execute", c, 0, Arr(resolvedArgs))),
                            "changed", <<c, Arr(resolvedArgs)>>)

\* _notified without the test of the arguments.
ReactiveSpook_notified_unchecked(w, c) ==
    IF Threw(w) THEN w
    ELSE execute(w, c, [i \in 1..Len(w.cells[c]._args) |->
                          resolved(w, w.cells[c]._args[i], w.cells[c]._resolveDepth)])

ReactiveSpook_notified(w, c) ==
    IF Threw(w) THEN w
    ELSE IF \A i \in 1..Len(w.cells[c]._args) :
               isReady(w, w.cells[c]._args[i], w.cells[c]._resolveDepth)
    THEN execute(w, c, [i \in 1..Len(w.cells[c]._args) |->
                          resolved(w, w.cells[c]._args[i], w.cells[c]._resolveDepth)])
    ELSE call(w, "reset", <<c>>)

notifiedIfIdle(w, c) ==
    IF Threw(w) THEN w
    ELSE IF /\ \A i \in 1..Len(w.cells[c]._args) :
                  ~Active(w.cells[c]._args[i], w.cells[c]._resolveDepth)
            /\ w.cells[c]._dependencies = <<>>
    THEN call(w, "_notified", <<c>>)
    ELSE w

ReactiveSpook_initialise(w, c) ==
    IF Threw(w) THEN w
    ELSE notifiedIfIdle(
            deepNotifyEach(
               notifyEach([w EXCEPT !.cells[c]._notifyKeys = <<>>], c,
                          w.cells[c]._dependencies),
               c, w.cells[c]._args, w.cells[c]._resolveDepth),
            c)

ReactiveSpook_finalise(w, c) ==
    IF Threw(w) THEN w
    ELSE deepUnnotifyEach(unnotifyEach(w, c, w.cells[c]._dependencies),
                          c, w.cells[c]._args, w.cells[c]._resolveDepth)

TransformSpook_finalise(w, c) ==
    call(dropOut(w, c), "ReactiveSpook_finalise", <<c>>)

----------------------------------------------------------------------------
\* TimeSpook (src/packages/spycraft/src/timeSpook.js).

poll(w, c, now) == call(w, "trigger", <<c, now>>)

\* setInterval: a handle no timer has and no cell remembers.
setInterval(w) ==
    CHOOSE h \in 1..(2 * Cardinality(DOMAIN w.cells) + 1) :
        /\ h \notin DOMAIN w.intervals
        /\ \A c \in DOMAIN w.cells : w.cells[c].interval # h
        /\ \A g \in 1..(h - 1) :
              g \in DOMAIN w.intervals \/ \E c \in DOMAIN w.cells : w.cells[c].interval = g

clearInterval(w, handle) ==
    IF Threw(w) \/ handle \notin DOMAIN w.intervals THEN w
    ELSE [w EXCEPT !.intervals = Remove(@, handle)]

TimeSpook_initialise(w, c) ==
    IF Threw(w) THEN w
    ELSE IF ~w.useTestIntervals
    THEN [w EXCEPT !.cells[c].interval = setInterval(w),
                   !.intervals = Put(@, setInterval(w), c)]
    ELSE [w EXCEPT !.cells[c].interval = Cardinality(DOMAIN w.privateTestIntervals) + 1,
                   !.privateTestIntervals =
                       Put(@, Cardinality(DOMAIN w.privateTestIntervals) + 1, c)]

TimeSpook_finalise(w, c) ==
    IF Threw(w) THEN w
    ELSE IF ~w.useTestIntervals THEN clearInterval(w, w.cells[c].interval)
    ELSE IF w.cells[c].interval \notin DOMAIN w.privateTestIntervals
    THEN Throw(w, "finalise() called multiple time on same timer!")
    ELSE [w EXCEPT !.privateTestIntervals = Remove(@, w.cells[c].interval)]

\* LatchSpook: a cell that takes the first value of its target and keeps it.
\* mayBeNull is "undefined", "true" or "false".
LatchSpook(targetSpook, def, mayBeNull, target_mayBeNull) ==
    [Spook(IF mayBeNull = "undefined" THEN target_mayBeNull ELSE mayBeNull = "true", NoUuid, 1)
       EXCEPT !.class = "LatchSpook",
              !._ready = def # Undefined,
              !._value = IF def # Undefined THEN def ELSE Null,
              !._targetSpook = targetSpook,
              !._poll = TRUE]

\* The closure this._poll of the constructor; c is `that`.
LatchSpook_poll(w, c) ==
    IF Threw(w) THEN w
    ELSE IF w.cells[c]._targetSpook = NoSpook
    THEN Log(w, Event("console.warn", c, 0, Undefined))
    ELSE IF ~w.cells[w.cells[c]._targetSpook]._ready THEN w
    ELSE LET targetSpook == w.cells[c]._targetSpook
             w1 == call(w, "changed", <<c, w.cells[targetSpook]._value>>)
             w2 == IF Threw(w1) \/ w1.cells[c]._notifyId = 0 THEN w1
                   ELSE LET w3 == call(w1, "unnotify", <<targetSpook, w1.cells[c]._notifyId>>)
                        IN IF Threw(w3) THEN w3
                           ELSE [w3 EXCEPT !.cells[c]._targetSpook = NoSpook]
         IN IF Threw(w2) THEN w2 ELSE [w2 EXCEPT !.cells[c]._poll = FALSE]

LatchSpook_initialise(w, c) ==
    IF Threw(w) \/ ~w.cells[c]._poll THEN w
    ELSE IF w.cells[c]._targetSpook = NoSpook THEN Throw(w, "TypeError")
    ELSE LET w1 == call(w, "notify", <<w.cells[c]._targetSpook, Callback("_poll", c, "", Undefined)>>)
             notifyId == w1.ret
         IN IF Threw(w1) THEN w1
            ELSE IF w1.cells[c]._poll
            THEN call([w1 EXCEPT !.cells[c]._notifyId = notifyId], "_poll", <<c>>)
            ELSE IF w1.cells[c]._targetSpook = NoSpook THEN Throw(w1, "TypeError")
            ELSE LET w2 == call(w1, "unnotify", <<w1.cells[c]._targetSpook, notifyId>>)
                 IN IF Threw(w2) THEN w2 ELSE [w2 EXCEPT !.cells[c]._targetSpook = NoSpook]

LatchSpook_finalise(w, c) ==
    IF Threw(w) \/ w.cells[c]._targetSpook = NoSpook THEN w
    ELSE call(w, "unnotify", <<w.cells[c]._targetSpook, w.cells[c]._notifyId>>)

RECURSIVE promise_forEach(_, _, _, _)

\* Spook.promise(list): the Promise made by the call, with `finished` and
\* `resolved` of its executor; q is the new Promise.
\* resolve(resolved) and reject(reason) of the host settle a pending Promise
\* and do nothing on a settled one.
Promise_resolve(w, q, value) ==
    IF Threw(w) \/ w.promises[q].state # "pending" THEN w
    ELSE [w EXCEPT !.promises[q].state = "fulfilled", !.promises[q].result = value]

Promise_reject(w, q) ==
    IF Threw(w) \/ w.promises[q].state # "pending" THEN w
    ELSE [w EXCEPT !.promises[q].state = "rejected"]

\* done(index, value) of Spook.promise
promise_done(w, q, index, value) ==
    IF Threw(w) THEN w
    ELSE LET w1 == [w EXCEPT !.promises[q].resolved[index] = value,
                             !.promises[q].finished = @ + 1]
         IN IF w1.promises[q].finished = Len(w1.promises[q].resolved)
            THEN call(w1, "resolve", <<q, Arr(w1.promises[q].resolved)>>)
            ELSE w1

\* unresolvedObject.then(value => done(index, value), reject) of the host
Promise_then_done(w, p, q, index) ==
    IF Threw(w) THEN w
    ELSE IF w.promises[p].state = "pending"
    THEN [w EXCEPT !.promises[p].reactions = Append(@, [into |-> q, index |-> index])]
    ELSE [w EXCEPT !.jobs = Append(@, [promise |-> p, callback |-> [into |-> q, index |-> index]])]

\* The reaction of Spook.promise to a settled Promise of its list, or the
\* one of a TransformSpook to the Promise its transform returned, run as a
\* job of the host.
promise_reaction(w, p, r) ==
    IF Threw(w) THEN w
    ELSE IF "changed" \in DOMAIN r
    THEN IF w.promises[p].state = "rejected" THEN w
         ELSE call(w, "changed", <<r.changed, w.promises[p].result>>)
    ELSE IF w.promises[p].state = "rejected" THEN call(w, "reject", <<r.into>>)
    ELSE call(w, "promise_done", <<r.into, r.index, w.promises[p].result>>)

promise_forEach(w, q, list, index) ==
    IF Threw(w) \/ index > Len(list) THEN w
    ELSE LET unresolvedObject == list[index]
             w1 == IF unresolvedObject.t = "spook"
                   THEN call(w, "then", <<unresolvedObject.id,
                                          Callback("promise_done", q, "nothing", index)>>)
                   ELSE IF unresolvedObject.t = "promise"
                   THEN Promise_then_done(w, unresolvedObject.id, q, index)
                   ELSE call(w, "promise_done", <<q, index, unresolvedObject>>)
         IN promise_forEach(w1, q, list, index + 1)

Spook_promise(w, list) ==
    IF Threw(w) THEN w
    ELSE LET q == Cardinality(DOMAIN w.promises) + 1
             w1 == [w EXCEPT !.promises =
                       Put(@, q, [state |-> "pending", result |-> Undefined,
                                  _value |-> Undefined, reactions |-> <<>>,
                                  list |-> list, finished |-> 0,
                                  resolved |-> [i \in 1..Len(list) |-> Undefined]])]
             w2 == promise_forEach(w1, q, list, 1)
         IN IF Threw(w2) THEN w2 ELSE [w2 EXCEPT !.ret = q]

\* A call of one method from another, by name.
call(w, method, args) ==
    CASE method = "trigger" -> trigger(w, args[1], args[2])
      [] method = "reset" -> reset(w, args[1])
      [] method = "changed" -> changed(w, args[1], args[2])
      [] method = "use" -> use(w, args[1])
      [] method = "drop" -> drop(w, args[1])
      [] method = "initialise" -> initialise(w, args[1])
      [] method = "finalise" -> finalise(w, args[1])
      [] method = "SpookCache_initialise" ->
            SpookCache_initialise(w, args[1], args[2], args[3])
      [] method = "SpookCache_finalise" ->
            SpookCache_finalise(w, args[1], args[2], args[3])
      [] method = "SpookCache_changed" ->
            SpookCache_changed(w, args[1], args[2], args[3])
      [] method = "ensureActive" -> ensureActive(w, args[1], args[2])
      [] method = "onStorageChanged" -> onStorageChanged(w, args[1], args[2])
      [] method = "onUnload" -> onUnload(w, args[1])
      [] method = "SpookCache_onMessage" -> SpookCache_onMessage(w, args[1], args[2], args[3])
      [] method = "SpookProxy_onMessage" -> SpookProxy_onMessage(w, args[1], args[2])
      [] method = "_notified" -> ReactiveSpook_notified(w, args[1])
      [] method = "reaction" -> reaction(w, args[1], args[2])
      [] method = "ReactiveSpook_initialise" -> ReactiveSpook_initialise(w, args[1])
      [] method = "ReactiveSpook_finalise" -> ReactiveSpook_finalise(w, args[1])
      [] method = "TransformSpook_finalise" -> TransformSpook_finalise(w, args[1])
      [] method = "TimeSpook_initialise" -> TimeSpook_initialise(w, args[1])
      [] method = "TimeSpook_finalise" -> TimeSpook_finalise(w, args[1])
      [] method \in {"Spook_initialise", "Spook_finalise"} -> w
      [] method = "LatchSpook_initialise" -> LatchSpook_initialise(w, args[1])
      [] method = "LatchSpook_finalise" -> LatchSpook_finalise(w, args[1])
      [] method = "_poll" -> LatchSpook_poll(w, args[1])
      [] method = "resolve" -> Promise_resolve(w, args[1], args[2])
      [] method = "reject" -> Promise_reject(w, args[1])
      [] method = "promise_done" -> promise_done(w, args[1], args[2], args[3])
      [] method = "promise_reaction" -> promise_reaction(w, args[1], args[2])
      [] method = "Spook.promise" -> Spook_promise(w, args[1])
      [] method = "notify" -> notify(w, args[1], args[2])
      [] method = "unnotify" -> unnotify(w, args[1], args[2])
      [] method = "tie" -> tie(w, args[1], args[2])
      [] method = "untie" -> untie(w, args[1], args[2])
      [] method = "then" -> then(w, args[1], args[2])
      [] method = "done" -> done(w, args[1])
      [] method = "defaultTo" -> defaultTo(w, args[1], args[2])
      [] method = "cleanupCallback" -> cleanupCallback(w, args[1], args[2])

----------------------------------------------------------------------------
\* Public calls, one action each.

Commit(w) ==
    /\ cells' = w.cells
    /\ storage' = w.storage
    /\ caches' = w.caches
    /\ events' = w.events
    /\ posted' = w.posted
    /\ privateTestIntervals' = w.privateTestIntervals
    /\ useTestIntervals' = w.useTestIntervals
    /\ intervals' = w.intervals
    /\ racing' = w.written
    /\ promises' = w.promises
    /\ jobs' = w.jobs
    /\ parent' = w.parent
    /\ spooks' = w.spooks
    /\ inbox' = w.inbox
    /\ nextSym' = w.nextSym

\* The values the application passes to changed / trigger.
Values == Numbers \cup {Null, NaN, Undefined}

\* What the application's callbacks do: nothing, or trigger the cell again.
Callbacks ==
    {Callback("user", NoSpook, "nothing", Undefined)}
        \cup {Callback("user", NoSpook, "trigger", Num(1))}

Use(c) ==
    /\ uses[c] < MaxUsers
    /\ Commit(call(World, "use", <<c>>))
    /\ uses' = [uses EXCEPT ![c] = @ + 1]

\* The application drops what it used; a drop() at user-count 0 throws.
Drop(c) ==
    /\ uses[c] > 0 \/ cells[c]._users = 0
    /\ Commit(call(World, "drop", <<c>>))
    /\ uses' = [uses EXCEPT ![c] = IF @ > 0 THEN @ - 1 ELSE @]

Tie(c, callbacks) ==
    /\ \E callback \in callbacks : Commit(call(World, "tie", <<c, callback>>))
    /\ UNCHANGED uses

Untie(c) ==
    /\ \E id \in 1..(nextSym - 1) : Commit(call(World, "untie", <<c, id>>))
    /\ UNCHANGED uses

Notify(c, callbacks) ==
    /\ \E callback \in callbacks : Commit(call(World, "notify", <<c, callback>>))
    /\ UNCHANGED uses

Unnotify(c) ==
    /\ \E id \in 1..(nextSym - 1) : Commit(call(World, "unnotify", <<c, id>>))
    /\ UNCHANGED uses

Then(c, callbacks) ==
    /\ \E callback \in callbacks : Commit(call(World, "then", <<c, callback>>))
    /\ UNCHANGED uses

DefaultTo(c, values) ==
    /\ \E v \in values : Commit(call(World, "defaultTo", <<c, v>>))
    /\ UNCHANGED uses

Done(c) ==
    /\ Commit(call(World, "done", <<c>>))
    /\ UNCHANGED uses

Changed(c, values) ==
    /\ \E v \in values : Commit(call(World, "changed", <<c, v>>))
    /\ UNCHANGED uses

Trigger(c, values) ==
    /\ \E v \in values : Commit(call(World, "trigger", <<c, v>>))
    /\ UNCHANGED uses

Reset(c) ==
    /\ Commit(call(World, "reset", <<c>>))
    /\ UNCHANGED uses

\* A call that overlaps the one another tab has just made.
Overlapping == [World EXCEPT !.overlap = TRUE]

Live(tab) == ~caches[tab].unloaded
Pending == {tab \in DOMAIN events : events[tab] # <<>>}

\* use() while the other tab claims an owner key.
RacingUse(c) ==
    /\ uses[c] < MaxUsers
    /\ \E r \in racing : r.tab # cells[c].tab
    /\ Commit(call(Overlapping, "use", <<c>>))
    /\ uses' = [uses EXCEPT ![c] = @ + 1]

\* The window of a tab is told of the oldest change of the store it has not
\* yet been told of.
StorageEvent(tab) ==
    /\ events[tab] # <<>>
    /\ Commit(call([World EXCEPT !.events[tab] = Tail(@)], "onStorageChanged",
                   <<tab, Head(events[tab])>>))
    /\ UNCHANGED uses

Unload(tab) ==
    /\ Live(tab)
    /\ Commit(call(World, "onUnload", <<tab>>))
    /\ UNCHANGED uses

\* The application fulfils a promise (resolve(v)): its reactions are queued.
Resolve(p, values) ==
    /\ promises[p].state = "pending"
    /\ \E v \in values :
          Commit([World EXCEPT
                     !.promises[p] = [state |-> "fulfilled", result |-> v,
                                      _value |-> Undefined, reactions |-> <<>>],
                     !.jobs = @ \o [i \in 1..Len(promises[p].reactions) |->
                                      [promise |-> p, callback |-> promises[p].reactions[i]]]])
    /\ UNCHANGED uses

\* The host runs the oldest job.
Job ==
    /\ jobs # <<>>
    /\ Commit(call([World EXCEPT !.jobs = Tail(@)], "reaction",
                   <<Head(jobs).promise, Head(jobs).callback>>))
    /\ UNCHANGED uses

\* The application rejects a promise (reject(reason)): its reactions are queued.
Reject(p) ==
    /\ promises[p].state = "pending"
    /\ Commit([World EXCEPT
                  !.promises[p].state = "rejected", !.promises[p].reactions = <<>>,
                  !.jobs = @ \o [i \in 1..Len(promises[p].reactions) |->
                                   [promise |-> p, callback |-> promises[p].reactions[i]]]])
    /\ UNCHANGED uses

\* The host runs the oldest job, a reaction of Spook.promise or of a
\* TransformSpook.
Settle ==
    /\ jobs # <<>>
    /\ Commit(call([World EXCEPT !.jobs = Tail(@)], "promise_reaction",
                   <<Head(jobs).promise, Head(jobs).callback>>))
    /\ UNCHANGED uses

\* The application calls Spook.promise(list).
PromiseOf(lists) ==
    /\ \E list \in lists : Commit(call(World, "Spook.promise", <<list>>))
    /\ UNCHANGED uses

\* A window receives the oldest message posted to it: the proxy's window one
\* that the window `tab` posted to its parent, the window `tab` one that the
\* proxy's window posted to it.
ParentReceives(tab) ==
    /\ posted[tab] # <<>>
    /\ Commit(call([World EXCEPT !.posted[tab] = Tail(@)], "SpookProxy_onMessage",
                   <<tab, Head(posted[tab])>>))
    /\ UNCHANGED uses

ChildReceives(tab) ==
    /\ inbox[tab] # <<>>
    /\ Commit(call([World EXCEPT !.inbox[tab] = Tail(@)], "SpookCache_onMessage",
                   <<tab, ProxyWindow, Head(inbox[tab])>>))
    /\ UNCHANGED uses

\* The proxy's window receives what it posted to itself.
SelfReceives ==
    /\ inbox[ProxyWindow] # <<>>
    /\ Commit(call([World EXCEPT !.inbox[ProxyWindow] = Tail(@)], "SpookProxy_onMessage",
                   <<ProxyWindow, Head(inbox[ProxyWindow])>>))
    /\ UNCHANGED uses

\* The proxy's window receives a message of a window that runs no SpookCache.
Outsider(source, payloads) ==
    /\ \E data \in payloads : Commit(call(World, "SpookProxy_onMessage", <<source, data>>))
    /\ UNCHANGED uses

\* A timer fires: the host's, or one of privateTestIntervals called by a test.
Timers == {intervals[h] : h \in DOMAIN intervals}
             \cup {privateTestIntervals[id] : id \in DOMAIN privateTestIntervals}
Tick(times) ==
    /\ \E c \in Timers : \E now \in times : Commit(poll(World, c, now))
    /\ UNCHANGED uses

----------------------------------------------------------------------------
\* One cell and its observers: a plain Spook, with or without a cache
\* identity, in a single tab.

InitCell ==
    /\ \E mayBeNull \in BOOLEAN, uuid \in {NoUuid, "u"} :
          cells = (1 :> Spook(mayBeNull, uuid, 1))
    /\ storage = Empty
    /\ caches = (1 :> SpookCache("s1", ""))
    /\ events = (1 :> <<>>)
    /\ posted = (1 :> <<>>)
    /\ privateTestIntervals = Empty
    /\ useTestIntervals = FALSE
    /\ intervals = Empty
    /\ racing = {}
    /\ promises = Empty
    /\ jobs = <<>>
    /\ parent = Empty
    /\ spooks = Empty
    /\ inbox = Empty
    /\ nextSym = 1
    /\ uses = (1 :> 0)

NextCell ==
    \/ Use(1)
    \/ Drop(1)
    \/ nextSym <= MaxSym /\ Tie(1, Callbacks)
    \/ Untie(1)
    \/ nextSym <= MaxSym /\ Notify(1, Callbacks)
    \/ Unnotify(1)
    \/ nextSym <= MaxSym /\ Then(1, Callbacks)
    \/ Changed(1, Values)
    \/ Trigger(1, Values)
    \/ Reset(1)

SpecCell == InitCell /\ [][NextCell]_vars

----------------------------------------------------------------------------
\* A transform of two cells: A (1) and B (2) are plain cells and T (3) is
\* new TransformSpook((x, y) => x + y, [A, B]).  The application ties
\* functions that only record what they are given to T, and changes A and B.

A == 1
B == 2
T == 3

Recorders == {Callback("user", NoSpook, "nothing", Undefined)}

InitMap ==
    /\ cells = <<Spook(TRUE, NoUuid, 1), Spook(TRUE, NoUuid, 1),
                 TransformSpook("plus", <<SpookRef(A), SpookRef(B)>>, <<>>, 3, 3,
                                NoUuid, FALSE, TRUE, 1)>>
    /\ storage = Empty
    /\ caches = (1 :> SpookCache("s1", ""))
    /\ events = (1 :> <<>>)
    /\ posted = (1 :> <<>>)
    /\ privateTestIntervals = Empty
    /\ useTestIntervals = FALSE
    /\ intervals = Empty
    /\ racing = {}
    /\ promises = Empty
    /\ jobs = <<>>
    /\ parent = Empty
    /\ spooks = Empty
    /\ inbox = Empty
    /\ nextSym = 1
    /\ uses = <<0, 0, 0>>

NextMap ==
    \/ nextSym + 2 <= MaxMapSym /\ Tie(T, Recorders)
    \/ Untie(T)
    \/ \E c \in {A, B} : Trigger(c, Values)
    \/ \E c \in {A, B} : Changed(c, Values)
    \/ \E c \in {A, B} : Reset(c)

SpecMap == InitMap /\ [][NextMap]_vars

----------------------------------------------------------------------------
\* Properties of one cell and its observers.

Ids(entries) == [i \in 1..Len(entries) |-> entries[i].id]
EventsOf(log, ev, c) == SelectSeq(log, LAMBDA e : e.ev = ev /\ e.cell = c)
Observers(c) ==
    Len(cells[c]._subscribers) + Len(cells[c]._notifies) + Len(cells[c]._thens)

\* C1: a cell without cache identity holds what its initialise hook acquired
\* exactly while its user-count is above 0, and its initialise and finalise
\* hooks have alternated, starting with initialise (resource is "broken" once
\* initialise ran on a held resource or finalise on an idle one).
C1_InitialisedWhileUsed ==
    \A c \in DOMAIN cells :
        cells[c]._uuid = NoUuid =>
            /\ cells[c].resource # "broken"
            /\ (cells[c].resource = "held") <=> (cells[c]._users > 0)

\* A second user has come to a cell that stays initialised once.
C1_Witness ==
    \E c \in DOMAIN cells :
        cells[c]._uuid = NoUuid /\ cells[c]._users >= 2 /\ cells[c].resource = "held"

\* C5: within one trigger every readiness-notifier is called before any
\* change-subscriber, every change-subscriber before any queued then-callback,
\* the cache is told after all of them, and each phase calls the registered
\* callbacks in registration order.
Rank(e, c) ==
    IF e.cell # c THEN 0
    ELSE CASE e.ev = "notify" -> 1
           [] e.ev = "tie" -> 2
           [] e.ev = "then" -> 3
           [] e.ev = "Spook.cache.changed" -> 4
           [] OTHER -> 0

PhasesInOrder(log, c) ==
    \A i, j \in 1..Len(log) :
        (i < j /\ Rank(log[i], c) > 0 /\ Rank(log[j], c) > 0)
            => Rank(log[i], c) <= Rank(log[j], c)

C5_TriggerOrder ==
    \A c \in DOMAIN cells : \A v \in Values :
        LET w == trigger(World, c, v)
            newValue == IF v = Undefined THEN cells[c]._value ELSE v
        IN /\ PhasesInOrder(w.calls, c)
           /\ (cells[c]._mayBeNull \/ newValue # Null) =>
                 /\ Ids(EventsOf(w.calls, "notify", c)) = Ids(cells[c]._notifies)
                 /\ Ids(EventsOf(w.calls, "tie", c)) = Ids(cells[c]._subscribers)
                 /\ Ids(EventsOf(w.calls, "then", c)) = Ids(cells[c]._thens)
           /\ cells[c]._uuid # NoUuid =>
                 /\ Len(EventsOf(w.calls, "Spook.cache.changed", c)) = 1
                 /\ w.calls[Len(w.calls)].ev \in {"Spook.cache.changed", "storage"}

\* A trigger of a cell with a cache identity goes through all four phases.
C5_Witness ==
    \E c \in DOMAIN cells : \E v \in Values :
        LET w == trigger(World, c, v)
        IN \A ev \in {"notify", "tie", "then", "Spook.cache.changed"} :
              EventsOf(w.calls, ev, c) # <<>>

\* C7: the application drops only what it used, and then whenever no trigger
\* is in progress the user-count is at least the number of registered
\* change-subscribers, readiness-notifiers and queued then-callbacks.
C7_UsersCoverObservers ==
    \A c \in DOMAIN cells :
        cells[c]._triggering = Null => cells[c]._users >= Observers(c)

\* Every kind of observer is registered, on top of a use() of the application.
C7_Witness ==
    \E c \in DOMAIN cells :
        /\ cells[c]._subscribers # <<>> /\ cells[c]._notifies # <<>>
        /\ cells[c]._thens # <<>> /\ cells[c]._users > Observers(c)

\* C8: drop() at user-count 0 throws and leaves the user-count at 0; neither
\* finalise nor the cache is called.
C8_DropUnderflow ==
    \A c \in DOMAIN cells :
        cells[c]._users = 0 =>
            LET w == drop(World, c)
            IN /\ Threw(w)
               /\ w.cells[c]._users = 0
               /\ w.calls = <<>>
               /\ w.cells = cells /\ w.caches = caches /\ w.storage = storage

\* A cell that was used and dropped back to user-count 0, with or without a
\* cache identity, where a further drop() throws.
C8_Witness ==
    \E c \in DOMAIN cells :
        /\ cells[c]._users = 0 /\ nextSym > 1
        /\ Threw(drop(World, c))

\* C4 as stated: with f tied to a cell, changed(v) with a value the cell
\* does not hold calls f(v) exactly once, and changed(v') with a v' that
\* serialises as the current value changes nothing and calls no observer.
Accepted(c, v) == v # Undefined /\ (cells[c]._mayBeNull \/ v # Null)
SerialisesAsCurrent(c, v) ==
    cells[c]._ready /\ JSON_stringify(v) = JSON_stringify(cells[c]._value)

CalledOnceWith(log, c, id, v) ==
    /\ Len(SelectSeq(EventsOf(log, "tie", c), LAMBDA e : e.id = id)) = 1
    /\ \A i \in 1..Len(log) :
          (log[i].ev = "tie" /\ log[i].cell = c /\ log[i].id = id) => log[i].arg = v

ChangedCallsSubscribers(c, v) ==
    (Accepted(c, v) /\ ~SerialisesAsCurrent(c, v)) =>
        \A i \in 1..Len(cells[c]._subscribers) :
            CalledOnceWith(changed(World, c, v).calls, c, cells[c]._subscribers[i].id, v)

NoTransition(w) ==
    w.calls = <<>> /\ w.cells = cells /\ w.storage = storage /\ w.caches = caches

Does(entries, does) == SelectSeq(entries, LAMBDA e : e.does = does)
Quiet(entries) == [i \in 1..Len(entries) |-> [entries[i] EXCEPT !.does = "nothing"]]
QuietWorld(c) ==
    [World EXCEPT !.cells[c]._subscribers = Quiet(@),
                  !.cells[c]._notifies = Quiet(@),
                  !.cells[c]._thens = Quiet(@)]
Observable(w, c) ==
    LET cell == w.cells[c]
    IN <<cell._ready, cell._value, cell._users, cell._triggering, cell.resource,
         Ids(cell._subscribers), Ids(cell._notifies), Ids(cell._thens)>>
Reentrant(c) ==
    Len(Does(cells[c]._subscribers, "trigger")) + Len(Does(cells[c]._notifies, "trigger"))
        + Len(Does(cells[c]._thens, "trigger"))

C6_ReentrantTriggerRejected ==
    \A c \in DOMAIN cells : \A v \in Values :
        LET w == trigger(World, c, v)
            quiet == trigger(QuietWorld(c), c, v)
            newValue == IF v = Undefined THEN cells[c]._value ELSE v
        IN /\ SelectSeq(w.calls, LAMBDA e : e.ev # "console.error") = quiet.calls
           /\ Observable(w, c) = Observable(quiet, c)
           /\ w.storage = quiet.storage /\ w.caches = quiet.caches
           /\ ~Threw(w) /\ w.cells[c]._triggering = Null
           /\ (cells[c]._mayBeNull \/ newValue # Null) =>
                 /\ w.cells[c]._ready /\ w.cells[c]._value = newValue
                 /\ Len(EventsOf(w.calls, "console.error", c)) = Reentrant(c)

\* An observer of each kind triggers the cell again from its callback, with
\* another value than the trigger in progress sets.
C6_Witness ==
    \E c \in DOMAIN cells : \E v \in Numbers :
        /\ Does(cells[c]._subscribers, "trigger") # <<>>
        /\ Does(cells[c]._notifies, "trigger") # <<>>
        /\ Does(cells[c]._thens, "trigger") # <<>>
        /\ v # Num(1)
        /\ Len(EventsOf(trigger(World, c, v).calls, "console.error", c)) = 3

----------------------------------------------------------------------------
\* Interval cells: three TimeSpooks (1, 2, 3) and Spook.all over them (4),
\* the first of them a second time inside an array.  The application uses
\* and drops each of the four; TimeSpook.useTestIntervals is set or not
\* before any of them is made.

TimeSpooks == {1, 2, 3}
AllTimes == 4

InitTime ==
    /\ cells = <<TimeSpook(Num(1), 1), TimeSpook(Num(1), 1), TimeSpook(Num(1), 1),
                 all(<<SpookRef(1), Arr(<<SpookRef(2), SpookRef(1)>>), SpookRef(3)>>, 1)>>
    /\ storage = Empty
    /\ caches = (1 :> SpookCache("s1", ""))
    /\ events = (1 :> <<>>)
    /\ posted = (1 :> <<>>)
    /\ privateTestIntervals = Empty
    /\ useTestIntervals \in BOOLEAN
    /\ intervals = Empty
    /\ racing = {}
    /\ promises = Empty
    /\ jobs = <<>>
    /\ parent = Empty
    /\ spooks = Empty
    /\ inbox = Empty
    /\ nextSym = 1
    /\ uses = <<0, 0, 0, 0>>

NextTime ==
    \/ \E c \in TimeSpooks : Use(c)
    \/ nextSym + 3 <= MaxTimeSym /\ Use(AllTimes)
    \/ \E c \in TimeSpooks \cup {AllTimes} : uses[c] > 0 /\ Drop(c)
    \/ Tick(Numbers)

SpecTime == InitTime /\ [][NextTime]_vars

----------------------------------------------------------------------------
\* A reactive cell R (3) over two plain cells (1 and 2) and a promise (1):
\* new ReactiveSpook([cell1, [promise1, cell2]], [], execute), where execute
\* is a function of the application or the default, this.changed.

R == 3
ReactValues == {Num(1), Num(2), Null, Undefined}

InitReact ==
    /\ \E fn \in {"user", "changed"} :
          cells = <<Spook(TRUE, NoUuid, 1), Spook(FALSE, NoUuid, 1),
                    ReactiveSpook(<<SpookRef(1), Arr(<<Promise(1), SpookRef(2)>>)>>, <<>>,
                                  fn, TRUE, 3, NoUuid, 1)>>
    /\ storage = Empty
    /\ caches = (1 :> SpookCache("s1", ""))
    /\ events = (1 :> <<>>)
    /\ posted = (1 :> <<>>)
    /\ privateTestIntervals = Empty
    /\ useTestIntervals = FALSE
    /\ intervals = Empty
    /\ racing = {}
    /\ promises = (1 :> [state |-> "pending", result |-> Undefined, _value |-> Undefined,
                         reactions |-> <<>>])
    /\ jobs = <<>>
    /\ parent = Empty
    /\ spooks = Empty
    /\ inbox = Empty
    /\ nextSym = 1
    /\ uses = <<0, 0, 0>>

NextReact ==
    \/ nextSym + 1 <= MaxReactSym /\ Use(R)
    \/ uses[R] > 0 /\ Drop(R)
    \/ \E c \in {1, 2} : Trigger(c, ReactValues)
    \/ \E c \in {1, 2} : Reset(c)
    \/ Resolve(1, ReactValues)
    \/ Job

SpecReact == InitReact /\ [][NextReact]_vars

----------------------------------------------------------------------------
\* Two tabs that share localStorage, each with its Spook.cache: cells 1 and
\* 2 of tab 1 and cell 3 of tab 2 all have the cache identity "u", and all
\* allow null or all disallow it.

Tabs == {1, 2}
Cached == {1, 2, 3}
CacheValues == Numbers \cup {Null}

InitCache ==
    /\ \E mayBeNull \in BOOLEAN :
          cells = [c \in Cached |-> Spook(mayBeNull, "u", IF c <= 2 THEN 1 ELSE 2)]
    /\ storage = Empty
    /\ caches = <<SpookCache("s1", ""), SpookCache("s2", "")>>
    /\ events = <<<<>>, <<>>>>
    /\ posted = <<<<>>, <<>>>>
    /\ privateTestIntervals = Empty
    /\ useTestIntervals = FALSE
    /\ intervals = Empty
    /\ racing = {}
    /\ promises = Empty
    /\ jobs = <<>>
    /\ parent = Empty
    /\ spooks = Empty
    /\ inbox = Empty
    /\ nextSym = 1
    /\ uses = [c \in Cached |-> 0]

\* The application of a tab runs while its window is there, and the model
\* bounds the number of events a window has not been told of.
Runs(c) == Live(cells[c].tab) /\ \A tab \in Tabs : Len(events[tab]) < MaxEvents

NextCache ==
    \/ \E c \in Cached : Runs(c) /\ Use(c)
    \/ \E c \in Cached : Runs(c) /\ RacingUse(c)
    \/ \E c \in Cached : Runs(c) /\ uses[c] > 0 /\ Drop(c)
    \/ \E c \in Cached : Runs(c) /\ Trigger(c, CacheValues)
    \/ \E tab \in Tabs : StorageEvent(tab)
    \/ \E tab \in Tabs : Unload(tab)

SpecCache == InitCache /\ [][NextCache]_vars

\* C3: when no window has a change of the store still to be told of, at most
\* one of the caches that share the store has a registration with owned
\* set, for each UUID.
Owners(uuid) ==
    {tab \in DOMAIN caches :
        uuid \in DOMAIN caches[tab].regs /\ caches[tab].regs[uuid].owned}

C3_OneOwner ==
    Pending = {} => \A c \in DOMAIN cells : Cardinality(Owners(cells[c]._uuid)) <= 1

----------------------------------------------------------------------------
\* Properties of the transform of two cells.

BothReady(w) == w.cells[A]._ready /\ w.cells[B]._ready
Sum(w) == plus(w.cells[A]._value, w.cells[B]._value)
Tied == cells[T]._subscribers # <<>>
GivenTo(log, c) == [i \in 1..Len(EventsOf(log, "tie", c)) |-> EventsOf(log, "tie", c)[i].arg]

\* What a call that changes A or B leaves: a ready T holding a + b whose
\* subscribers were given a + b last, or inputs not ready and no subscriber
\* called.
Follows(w) ==
    /\ ~Threw(w)
    /\ IF BothReady(w)
       THEN /\ w.cells[T]._ready /\ w.cells[T]._value = Sum(w)
            /\ IF GivenTo(w.calls, T) = <<>>
               THEN cells[T]._ready /\ cells[T]._value = Sum(w)
               ELSE GivenTo(w.calls, T)[Len(GivenTo(w.calls, T))] = Sum(w)
       ELSE GivenTo(w.calls, T) = <<>>

\* C2: with a function tied to T = map((x, y) => x + y, [A, B]), T is ready
\* with a + b whenever A and B are ready with a and b, every change of A or
\* B that leaves both ready has given a + b to the function, and the function
\* is never called while A or B is not ready: not by a change of A or B, and
\* not when it is tied.
C2_TransformFollowsInputs ==
    /\ (Tied /\ BothReady(World)) => (cells[T]._ready /\ cells[T]._value = Sum(World))
    /\ Tied => \A c \in {A, B} :
          /\ \A v \in Values : Follows(trigger(World, c, v)) /\ Follows(changed(World, c, v))
          /\ Follows(reset(World, c))
    /\ \A f \in Recorders :
          IF BothReady(World)
          THEN GivenTo(tie(World, T, f).calls, T) = <<Sum(World)>>
          ELSE GivenTo(tie(World, T, f).calls, T) = <<>>

----------------------------------------------------------------------------
\* Properties of interval cells and of the cells made from them.

InUse(c) == cells[c]._users > 0

\* C9: with TimeSpook.useTestIntervals set, as many timers are registered as
\* there are TimeSpooks with a user-count above 0, and no drop() of a cell in
\* use throws (from finalise).
C9_TimersMatchUsers ==
    useTestIntervals =>
        /\ Cardinality(DOMAIN privateTestIntervals)
              = Cardinality({c \in TimeSpooks : InUse(c)})
        /\ \A c \in DOMAIN cells : InUse(c) => ~Threw(drop(World, c))

Reactive == {c \in DOMAIN cells : cells[c].class \in {"ReactiveSpook", "TransformSpook"}}
NotifiersOf(w, c, input) ==
    SelectSeq(w.cells[input]._notifies, LAMBDA e : e.fn = "_notified" /\ e.target = c)
OtherNotifiers(w, c, input) ==
    SelectSeq(w.cells[input]._notifies, LAMBDA e : ~(e.fn = "_notified" /\ e.target = c))

\* C10: the drop() that ends the use of a reactive or transform cell removes
\* every notifier the cell has registered on its inputs and nothing else, and
\* lowers each input's user-count by the number of notifiers removed from
\* it; so a use() and the matching drop() leave every input's user-count and
\* notifiers as they were.
C10_DropUnregistersNotifiers ==
    \A c \in Reactive : \A input \in DOMAIN cells \ {c} :
        /\ cells[c]._users = 1 =>
              LET w == drop(World, c)
              IN /\ w.cells[input]._notifies = OtherNotifiers(World, c, input)
                 /\ w.cells[input]._users
                       = cells[input]._users - Len(NotifiersOf(World, c, input))
        /\ cells[c]._users = 0 =>
              LET w == drop(use(World, c), c)
              IN /\ Ids(w.cells[input]._notifies) = Ids(cells[input]._notifies)
                 /\ w.cells[input]._users = cells[input]._users

----------------------------------------------------------------------------
\* Properties of a reactive cell.

AllReady(w, c) ==
    \A i \in 1..Len(w.cells[c]._args) :
        isReady(w, w.cells[c]._args[i], w.cells[c]._resolveDepth)

CurrentValues(w, c) ==
    Arr([i \in 1..Len(w.cells[c]._args) |->
            resolved(w, w.cells[c]._args[i], w.cells[c]._resolveDepth)])

\* One of the cell's notifiers on its inputs was called.
WasNotified(w, c) ==
    \E i \in 1..Len(w.calls) :
        /\ w.calls[i].ev = "notify"
        /\ \E k \in 1..Len(w.cells[c]._notifyKeys) : w.cells[c]._notifyKeys[k] = w.calls[i].id

\* What a call that notified the cell (`told`) has done with its callback.
Reacted(w, c, told) ==
    LET given == EventsOf(w.calls, "execute", c)
    IN /\ ~Threw(w)
       /\ given # <<>> =>
             /\ AllReady(w, c)
             /\ \A i \in 1..Len(given) : given[i].arg = CurrentValues(w, c)
       /\ told /\ AllReady(w, c) => given # <<>>
       /\ told /\ ~AllReady(w, c) => given = <<>> /\ ~w.cells[c]._ready

----------------------------------------------------------------------------
\* Properties of the caches of two tabs.

\* The tab is about to be told that the owner key of "u" went, the other
\* window having unloaded, while it has users registered for "u".
Orphaned(tab) ==
    /\ Live(tab) /\ \E other \in Tabs \ {tab} : ~Live(other)
    /\ events[tab] # <<>> /\ Head(events[tab]) = OwnerKey("u")
    /\ OwnerKey("u") \notin DOMAIN storage
    /\ "u" \in DOMAIN caches[tab].regs
    /\ caches[tab].regs["u"].users # <<>> /\ ~caches[tab].regs["u"].deferred

Told(tab) == onStorageChanged([World EXCEPT !.events[tab] = Tail(@)], tab, Head(events[tab]))

\* C12: when the window that held the owner key has unloaded and a tab with
\* a user registered for the UUID is told of the change of the owner key,
\* the tab writes its session id to the owner key, makes one of its users
\* the primary, sets owned and calls initialise on the primary.
C12_AdoptsAfterUnload ==
    \A tab \in Tabs :
        Orphaned(tab) =>
            LET w == Told(tab)
                reg == w.caches[tab].regs["u"]
            IN /\ OwnerKey("u") \in DOMAIN w.storage
               /\ w.storage[OwnerKey("u")] = caches[tab].sessionId
               /\ reg.owned
               /\ \E i \in 1..Len(caches[tab].regs["u"].users) :
                     reg.primary = caches[tab].regs["u"].users[i]
               /\ EventsOf(w.calls, "initialise", reg.primary) # <<>>

\* The tab is about to be told of a change of the value key of "u" while it
\* has users registered for "u".
Behind(tab) ==
    /\ events[tab] # <<>> /\ Head(events[tab]) = ValueKey("u")
    /\ "u" \in DOMAIN caches[tab].regs
    /\ caches[tab].regs["u"].users # <<>>

Mirrors(w, c) ==
    IF ValueKey("u") \in DOMAIN w.storage
    THEN w.cells[c]._ready /\ w.cells[c]._value = JSON_parse(w.storage[ValueKey("u")])
    ELSE ~w.cells[c]._ready

\* C13: when a tab with users registered for the UUID is told of a change of
\* the value key, each of those users is then ready with the parsed value
\* the store holds (or not ready when the key is gone).
C13_UsersMirrorStore ==
    \A tab \in Tabs :
        Behind(tab) =>
            /\ ~Threw(Told(tab))
            /\ \A i \in 1..Len(caches[tab].regs["u"].users) :
                  Mirrors(Told(tab), caches[tab].regs["u"].users[i])

\* The cell has taken the value v it was given through changed(): it is
\* ready with v, or not ready when v is null and the cell disallows null.
Took(w, c, v) ==
    IF v = Null /\ ~w.cells[c]._mayBeNull THEN ~w.cells[c]._ready
    ELSE w.cells[c]._ready /\ w.cells[c]._value = v

\* C13 (amended): when a tab with users registered for the UUID is told of a
\* change of the value key, each of those users is then ready with the
\* parsed value the store holds, except that it is not ready when the key
\* is gone or when the stored value is null and the user disallows null.
C13_UsersTakeStore ==
    \A tab \in Tabs :
        Behind(tab) =>
            /\ ~Threw(Told(tab))
            /\ \A i \in 1..Len(caches[tab].regs["u"].users) :
                  LET c == caches[tab].regs["u"].users[i]
                  IN IF ValueKey("u") \in DOMAIN storage
                     THEN Took(Told(tab), c, JSON_parse(storage[ValueKey("u")]))
                     ELSE ~Told(tab).cells[c]._ready

\* A tab is told of a value its user does not hold yet.
C13_Witness ==
    \E tab \in Tabs :
        /\ Behind(tab)
        /\ ValueKey("u") \in DOMAIN storage
        /\ ~Mirrors(World, caches[tab].regs["u"].users[1])
        /\ Mirrors(Told(tab), caches[tab].regs["u"].users[1])

\* The tab whose call a step is: the one that is not told of the step's
\* changes of the store.
Wrote(tab) == Live(tab) /\ Len(events'[tab]) <= Len(events[tab])

Holds(store, key, tab) == key \in DOMAIN store /\ store[key] = caches[tab].sessionId

Differs(key) ==
    \/ (key \in DOMAIN storage) # (key \in DOMAIN storage')
    \/ key \in DOMAIN storage /\ key \in DOMAIN storage' /\ storage[key] # storage'[key]

\* C14: a step that changes the value key of the UUID is a call of the tab
\* whose session id the owner key holds, and a step that changes or removes
\* an owner key that held a session id is a call of the tab with that
\* session id.
C14_OnlyOwnerWrites ==
    [][/\ Differs(ValueKey("u")) => \E tab \in Tabs : Wrote(tab) /\ Holds(storage', OwnerKey("u"), tab)
       /\ Differs(OwnerKey("u")) /\ OwnerKey("u") \in DOMAIN storage =>
             \E tab \in Tabs : Wrote(tab) /\ Holds(storage, OwnerKey("u"), tab)]_vars

\* The in-use cells of the tab of c other than c.
Siblings(c) == {d \in Cached \ {c} : cells[d].tab = cells[c].tab /\ cells[d]._users > 0}

\* C15: in a tab whose session id the owner key holds, trigger(v) on a cell
\* in use leaves every other cell in use of that tab ready with the value v.
C15_TriggerReachesSiblings ==
    \A c \in Cached : \A v \in Numbers :
        /\ Live(cells[c].tab) /\ cells[c]._users > 0
        /\ Holds(storage, OwnerKey("u"), cells[c].tab)
        => \A d \in Siblings(c) :
              LET w == trigger(World, c, v) IN w.cells[d]._ready /\ w.cells[d]._value = v

\* A cell of a live tab that is not in use, and what tie() on it does.
Unused(c) == Live(cells[c].tab) /\ cells[c]._users = 0
Fresh(c) == "u" \notin DOMAIN caches[cells[c].tab].regs /\ ValueKey("u") \in DOMAIN storage
tied(c) == tie(World, c, Callback("user", NoSpook, "nothing", Undefined))

\* (this.regs[uuid].primary || this.regs[uuid].users[0]) once c is registered.
Equiv(c) ==
    LET item == caches[cells[c].tab].regs["u"]
    IN IF item.primary # NoSpook THEN item.primary
       ELSE IF item.users # <<>> THEN item.users[1] ELSE c

Registered(c) == "u" \in DOMAIN caches[cells[c].tab].regs /\ cells[Equiv(c)]._ready

\* tie() called the function it was given, with the cell's value.
ToldValue(w, c) ==
    LET given == EventsOf(w.calls, "tie", c)
    IN Len(given) = 1 /\ given[1].arg = w.cells[c]._value

----------------------------------------------------------------------------
\* A page with a SpookProxy and frames that defer to it
\* (src/unnamed/part_001, 'should work').

\* Window 1 has the proxy and the producer; windows 2 and 3 are frames of it
\* whose SpookCache defers the prefix "p/" to the parent; window 4 is a frame
\* of window 2. The proxy's window is a surrogate without parent (0), or a
\* browser's top-level window, whose window.parent is the window itself.
Windows == 1..4
Frames == {2, 3}
MirrorCells == {2, 3, 4}
ProxyValues == {Num(1), Null, Arr(<<Num(1)>>)}
Payloads == {[useSpook |-> "p/x"], [dropSpook |-> "p/x"], [useSpook |-> "q"], [helloSpookProxy |-> TRUE]}

InitProxy ==
    /\ \E mayBeNull \in BOOLEAN :
          cells = [c \in {Producer} \cup MirrorCells |->
                     IF c = Producer
                     THEN [Spook(mayBeNull, "p/x", ProxyWindow) EXCEPT !._noCache = TRUE]
                     ELSE Spook(mayBeNull, "p/x", IF c <= 3 THEN 2 ELSE 3)]
    /\ storage = Empty
    /\ caches = <<SpookCache("s1", ""), SpookCache("s2", "p/"), SpookCache("s3", "p/")>>
    /\ events = <<<<>>, <<>>, <<>>>>
    /\ posted = <<<<>>, <<>>, <<>>>>
    /\ privateTestIntervals = Empty
    /\ useTestIntervals = FALSE
    /\ intervals = Empty
    /\ racing = {}
    /\ promises = Empty
    /\ jobs = <<>>
    /\ \E top \in {0, ProxyWindow} : parent = <<top, ProxyWindow, ProxyWindow, 2>>
    /\ spooks = Empty
    /\ inbox = [window \in Windows |-> <<>>]
    /\ nextSym = 1
    /\ uses = [c \in {Producer} \cup MirrorCells |-> 0]

\* The number of messages not yet received.
RECURSIVE InFlight(_)
InFlight(windows) ==
    IF windows = {} THEN 0
    ELSE LET tab == CHOOSE x \in windows : TRUE
         IN Len(inbox[tab]) + (IF tab \in Frames THEN Len(posted[tab]) ELSE 0)
               + InFlight(windows \ {tab})

\* The applications run while few messages wait; what may add a user to an
\* entry of the proxy runs while the entry has few, and what takes a Symbol()
\* while Symbols are left.
Room == InFlight(Windows) < MaxMessages
Seats == \A uuid \in DOMAIN spooks : Len(spooks[uuid].users) < MaxSubscribers
Symbols == nextSym <= MaxProxySym

NextProxy ==
    \/ \E c \in MirrorCells \ {2} : Room /\ Seats /\ Use(c)
    \/ \E c \in MirrorCells \ {2} : Room /\ uses[c] > 0 /\ Drop(c)
    \/ Room /\ Seats /\ Symbols /\ cells[2]._subscribers = <<>> /\ Tie(2, Recorders)
    \/ Room /\ Untie(2)
    \/ Room /\ Trigger(Producer, ProxyValues)
    \/ Room /\ Reset(Producer)
    \/ \E source \in {ProxyWindow, 4} : Room /\ Seats /\ Symbols /\ Outsider(source, Payloads)
    \/ \E tab \in Frames : Symbols /\ ParentReceives(tab)
    \/ \E tab \in Frames : ChildReceives(tab)
    \/ SelfReceives

SpecProxy == InitProxy /\ [][NextProxy]_vars

\* The world after the frame `tab` has received the oldest message of the
\* proxy's window.
Delivered(tab) == SpookCache_onMessage([World EXCEPT !.inbox[tab] = Tail(@)], tab, ProxyWindow, Head(inbox[tab]))

\* Every function tied to the cell was called with the cell's value in w.
Observed(w, c) ==
    \A k \in 1..Len(w.cells[c]._subscribers) :
        \E i \in 1..Len(w.calls) :
            /\ w.calls[i].ev = "tie" /\ w.calls[i].cell = c
            /\ w.calls[i].id = w.cells[c]._subscribers[k].id
            /\ w.calls[i].arg = w.cells[c]._value

\* C17: when no message is in flight, every mirror cell in use in a frame is
\* ready exactly when the producer cell of the proxy is ready, and then holds
\* the producer's value; and a message from the proxy that makes a mirror in
\* use ready or changes its value calls the functions tied to it with the
\* new value.
C17_MirrorsFollowProducer ==
    /\ InFlight(Windows) = 0 =>
          \A c \in MirrorCells : InUse(c) =>
              /\ cells[c]._ready = cells[Producer]._ready
              /\ cells[c]._ready => cells[c]._value = cells[Producer]._value
    /\ \A tab \in Frames : inbox[tab] # <<>> =>
          \A c \in MirrorCells :
              /\ cells[c].tab = tab /\ InUse(c) /\ Delivered(tab).cells[c]._ready
              /\ ~cells[c]._ready \/ Delivered(tab).cells[c]._value # cells[c]._value
              => Observed(Delivered(tab), c)

\* The functions the proxy has registered with notify() on the producer.
Notifiers(w) == SelectSeq(w.cells[Producer]._notifies, LAMBDA entry : entry.fn = "SpookProxy")

\* The proxy's entry of "p/x" and its one function on the producer, or neither.
Retained(w) ==
    IF "p/x" \in DOMAIN w.spooks
    THEN /\ w.spooks["p/x"].users # <<>>
         /\ Len(Notifiers(w)) = 1
         /\ Notifiers(w)[1].id = w.spooks["p/x"].notifyKey
         /\ w.cells[Producer]._users = 1
    ELSE Notifiers(w) = <<>> /\ w.cells[Producer]._users = 0

\* The world after the proxy has received the oldest message of the frame.
Received(tab) == SpookProxy_onMessage([World EXCEPT !.posted[tab] = Tail(@)], tab, Head(posted[tab]))

\* C18: the proxy has an entry for a UUID exactly while the entry's list of
\* users is not empty, and then holds exactly one notify() function, and one
\* use, on the producer cell, and none otherwise; a useSpook of a frame adds
\* the frame to the list, creating the entry if there is none, and a
\* dropSpook of a frame in the list removes the entry exactly when the frame
\* was the only user.
C18_OneNotifierWhileSubscribed ==
    /\ Retained(World)
    /\ \A tab \in Frames : posted[tab] # <<>> /\ Symbols =>
          /\ Retained(Received(tab))
          /\ Head(posted[tab]) = [useSpook |-> "p/x"] =>
                /\ "p/x" \in DOMAIN Received(tab).spooks
                /\ Received(tab).spooks["p/x"].users =
                      (IF "p/x" \in DOMAIN spooks THEN spooks["p/x"].users ELSE <<>>) \o <<tab>>
          /\ Head(posted[tab]) = [dropSpook |-> "p/x"] /\ "p/x" \in DOMAIN spooks =>
                ("p/x" \in DOMAIN Received(tab).spooks) = (\E i \in 1..Len(spooks["p/x"].users) : spooks["p/x"].users[i] # tab)

\* Both frames are users of an entry that is not the first one made, and
\* one of them is about to drop it.
C18_Witness ==
    /\ "p/x" \in DOMAIN spooks
    /\ spooks["p/x"].users \in {<<2, 3>>, <<3, 2>>}
    /\ spooks["p/x"].notifyKey > 1
    /\ cells[2]._subscribers = <<>>
    /\ \E tab \in Frames : posted[tab] # <<>> /\ Head(posted[tab]) = [dropSpook |-> "p/x"]

\* C19: a message whose source is not a frame of the proxy's window (the
\* proxy's window itself, or a frame of a frame) leaves the proxy's entries,
\* their users and the producer's notify() functions as they were and posts
\* no message, whatever the message holds.
C19_IgnoresOtherSources ==
    \A source \in Windows \ Frames : \A data \in Payloads :
        LET w == SpookProxy_onMessage(World, source, data)
        IN /\ w.spooks = spooks
           /\ w.cells = cells
           /\ w.inbox = inbox

\* The values the function tied with the key `id` was called with in w.
Given(w, id) ==
    LET told == SelectSeq(w.calls, LAMBDA e : e.ev = "tie" /\ e.id = id)
    IN [i \in 1..Len(told) |-> told[i].arg]

\* tie(f) and trigger(v) on the cell, then trigger(u).
Retriggered(v, u) ==
    LET bound == tie(World, 1, Callback("user", NoSpook, "nothing", Undefined))
        first == trigger([bound EXCEPT !.calls = <<>>], 1, v)
        second == trigger([first EXCEPT !.calls = <<>>], 1, u)
    IN [f |-> bound.ret, first |-> first, second |-> second]

\* C20: after tie(f) and a trigger(v) that called f with v, a second
\* trigger(v) does not call f, and a trigger(u) with another value calls f
\* once, with u.
C20_SameValueNotRepeated ==
    \A v \in Numbers : \A u \in Numbers :
        LET r == Retriggered(v, u)
        IN ~Threw(r.first) /\ Given(r.first, r.f) = <<v>> =>
              Given(r.second, r.f) = (IF u = v THEN <<>> ELSE <<u>>)

----------------------------------------------------------------------------
\* One cell whose observers untie one another or throw.

\* What the application's functions do here: nothing, untie the function
\* registered under a Symbol of the cell, or throw.
Functions ==
    {Callback("user", NoSpook, "nothing", Undefined), Callback("user", NoSpook, "throw", Undefined)}
        \cup {Callback("user", NoSpook, "untie", id) : id \in 1..MaxObserveSym}

ObserveValues == Numbers \cup {Null}

InitObserve ==
    /\ \E mayBeNull \in BOOLEAN : cells = (1 :> Spook(mayBeNull, NoUuid, 1))
    /\ storage = Empty
    /\ caches = (1 :> SpookCache("s1", ""))
    /\ events = (1 :> <<>>)
    /\ posted = (1 :> <<>>)
    /\ privateTestIntervals = Empty
    /\ useTestIntervals = FALSE
    /\ intervals = Empty
    /\ racing = {}
    /\ promises = Empty
    /\ jobs = <<>>
    /\ parent = Empty
    /\ spooks = Empty
    /\ inbox = Empty
    /\ nextSym = 1
    /\ uses = (1 :> 0)

NextObserve ==
    \/ nextSym <= MaxObserveSym /\ Tie(1, Functions)
    \/ Untie(1)
    \/ nextSym <= MaxObserveSym /\ Notify(1, Functions)
    \/ Unnotify(1)
    \/ nextSym <= MaxObserveSym /\ Then(1, Functions)
    \/ Trigger(1, ObserveValues)
    \/ Changed(1, ObserveValues)
    \/ Reset(1)

SpecObserve == InitObserve /\ [][NextObserve]_vars

\* The worlds a trigger, changed or reset of the cell may leave.
Transitions ==
    {trigger(World, 1, v) : v \in ObserveValues} \cup {changed(World, 1, v) : v \in ObserveValues}
        \cup {reset(World, 1)}

\* No function is called after the untie of its Symbol in the log.
Silenced(log) ==
    \A i \in 1..Len(log) : \A j \in (i + 1)..Len(log) :
        ~(log[i].ev = "untie" /\ log[j].ev = "tie" /\ log[j].id = log[i].id)

\* C21: a trigger, changed or reset of the cell calls only functions whose
\* Symbol is in _subscribers when the call starts, and calls none of them
\* after an untie of its Symbol, also when that untie is made by another
\* function during the same call.
C21_UntiedNeverCalled ==
    \A w \in Transitions :
        /\ Silenced(w.calls)
        /\ \A i \in 1..Len(w.calls) :
              w.calls[i].ev = "tie" => HasId(cells[1]._subscribers, w.calls[i].id)

\* How often a call has called the function queued by then() under `id`.
Thens(w, id) == Len(SelectSeq(w.calls, LAMBDA e : e.ev = "then" /\ e.id = id))

\* then(f) on the cell, and a trigger(v) after it.
Queued(f) == then(World, 1, f)
Awaited(f, v) == trigger([Queued(f) EXCEPT !.calls = <<>>], 1, v)

----------------------------------------------------------------------------
\* done() on a cell, with Spook's own isDone and with Transaction's.

\* The status objects { failed, confirmed } a Transaction is triggered with:
\* in progress, confirmed, failed.
Statuses == {Obj(<<Undefined, Undefined>>), Obj(<<Undefined, Num(1)>>), Obj(<<Num(1), Undefined>>)}

InitDone ==
    /\ \E class \in {"Spook", "Transaction"} :
          cells = (1 :> [Spook(FALSE, NoUuid, 1) EXCEPT !.isDone = class])
    /\ storage = Empty
    /\ caches = (1 :> SpookCache("s1", ""))
    /\ events = (1 :> <<>>)
    /\ posted = (1 :> <<>>)
    /\ privateTestIntervals = Empty
    /\ useTestIntervals = FALSE
    /\ intervals = Empty
    /\ racing = {}
    /\ promises = Empty
    /\ jobs = <<>>
    /\ parent = Empty
    /\ spooks = Empty
    /\ inbox = Empty
    /\ nextSym = 1
    /\ uses = (1 :> 0)

NextDone ==
    \/ nextSym <= MaxDoneSym /\ Done(1)
    \/ nextSym <= MaxDoneSym /\ Tie(1, Recorders)
    \/ Trigger(1, Statuses)
    \/ Changed(1, Statuses)
    \/ Reset(1)

SpecDone == InitDone /\ [][NextDone]_vars

\* How often a call has called the function given to done() whose
\* cleanupCallback is registered under `id`.
Dones(w, id) == Len(SelectSeq(w.calls, LAMBDA e : e.ev = "done" /\ e.id = id))

\* done(f) on the cell, and a trigger(v) after it.
Registered_done == done(World, 1)
Finished(v) == trigger([Registered_done EXCEPT !.calls = <<>>], 1, v)

\* C23: on a cell with Transaction's isDone, done(f) on a cell that is ready
\* with a value that is done calls f once and leaves subscribers and user
\* count as they were, and no later trigger calls f; otherwise done(f) calls
\* nothing and registers one subscriber with one use, and the next trigger
\* calls f once and removes the subscriber and its use (the user count is
\* what the trigger leaves without the done(f)) if its value is done, and
\* calls nothing and keeps them if it is not.
C23_DoneOnce ==
    cells[1].isDone = "Transaction" /\ cells[1]._triggering = Null =>
        IF cells[1]._ready /\ isDone(World, 1, cells[1]._value)
        THEN /\ Dones(Registered_done, nextSym) = 1
             /\ Registered_done.cells[1]._subscribers = cells[1]._subscribers
             /\ Registered_done.cells[1]._users = cells[1]._users
             /\ \A v \in Statuses : Dones(Finished(v), nextSym) = 0
        ELSE /\ Dones(Registered_done, nextSym) = 0
             /\ HasId(Registered_done.cells[1]._subscribers, nextSym)
             /\ Registered_done.cells[1]._users = cells[1]._users + 1
             /\ \A v \in Statuses :
                   IF isDone(World, 1, v)
                   THEN /\ Dones(Finished(v), nextSym) = 1
                        /\ ~HasId(Finished(v).cells[1]._subscribers, nextSym)
                        /\ Finished(v).cells[1]._users = trigger(World, 1, v).cells[1]._users
                   ELSE /\ Dones(Finished(v), nextSym) = 0
                        /\ HasId(Finished(v).cells[1]._subscribers, nextSym)

\* C24: done(f) on a cell that has Spook's own isDone throws and leaves the
\* cell, with its subscribers and its user count, as it was.
C24_DoneUnsupported ==
    cells[1].isDone = "Spook" => Threw(Registered_done) /\ Registered_done.cells = cells

\* The Symbols of the functions a call has called from the table `ev`.
Called(w, ev) == [i \in 1..Len(EventsOf(w.calls, ev, 1)) |-> EventsOf(w.calls, ev, 1)[i].id]
Keys(o) == [i \in 1..Len(o) |-> o[i].id]

\* No function registered with notify() calls back into the cell.
Passive == \A i \in 1..Len(cells[1]._notifies) : cells[1]._notifies[i].does = "nothing"

\* What reset() on a cell without default has to leave: a cell that is not
\* ready, each notify() function called once if the cell was ready, no
\* function else, and the user count as it was.
ResetOnly(w) ==
    /\ ~Threw(w) /\ ~w.cells[1]._ready
    /\ Called(w, "notify") = (IF cells[1]._ready THEN Keys(cells[1]._notifies) ELSE <<>>)
    /\ Called(w, "tie") = <<>> /\ Called(w, "then") = <<>>
    /\ w.cells[1]._users = cells[1]._users

----------------------------------------------------------------------------
\* A cell that is given a default value.

DefaultValues == Numbers \cup {Null}

InitDefault ==
    /\ \E mayBeNull \in BOOLEAN : \E uuid \in {NoUuid, "u"} :
          cells = (1 :> Spook(mayBeNull, uuid, 1))
    /\ storage = Empty
    /\ caches = (1 :> SpookCache("s1", ""))
    /\ events = (1 :> <<>>)
    /\ posted = (1 :> <<>>)
    /\ privateTestIntervals = Empty
    /\ useTestIntervals = FALSE
    /\ intervals = Empty
    /\ racing = {}
    /\ promises = Empty
    /\ jobs = <<>>
    /\ parent = Empty
    /\ spooks = Empty
    /\ inbox = Empty
    /\ nextSym = 1
    /\ uses = (1 :> 0)

NextDefault ==
    \/ DefaultTo(1, Numbers)
    \/ nextSym <= MaxDefaultSym /\ Tie(1, Recorders)
    \/ nextSym <= MaxDefaultSym /\ Notify(1, Recorders)
    \/ Untie(1)
    \/ Trigger(1, DefaultValues)
    \/ Changed(1, DefaultValues)
    \/ Reset(1)

SpecDefault == InitDefault /\ [][NextDefault]_vars

\* The cell is ready with its default value in w.
Defaulted(w) == w.cells[1]._ready /\ w.cells[1]._value = cells[1]._defaultTo

\* C26: once a cell has a default value that is neither undefined nor null
\* it is ready in every state, and reset(), and changed(null) and
\* trigger(null) on a cell that does not allow null, leave it ready with the
\* default value.
C26_DefaultKeepsReady ==
    cells[1]._defaultTo \notin {Undefined, Null} =>
        /\ cells[1]._ready
        /\ Defaulted(reset(World, 1))
        /\ ~cells[1]._mayBeNull => Defaulted(changed(World, 1, Null)) /\ Defaulted(trigger(World, 1, Null))

\* ---------------------------------------------------------------------
\* A latch (cell 2) over a plain cell (cell 1).
MaxLatchSym == 4
LatchValues == Numbers \cup {Null}
LatchDefault == Num(1)

InitLatch ==
    /\ \E mayBeNull \in BOOLEAN, latchMayBeNull \in {"undefined", "false"} :
          cells = (1 :> Spook(mayBeNull, NoUuid, 1)
                   @@ 2 :> LatchSpook(1, LatchDefault, latchMayBeNull, mayBeNull))
    /\ storage = Empty
    /\ caches = (1 :> SpookCache("s1", ""))
    /\ events = (1 :> <<>>)
    /\ posted = (1 :> <<>>)
    /\ privateTestIntervals = Empty
    /\ useTestIntervals = FALSE
    /\ intervals = Empty
    /\ racing = {}
    /\ promises = Empty
    /\ jobs = <<>>
    /\ parent = Empty
    /\ spooks = Empty
    /\ inbox = Empty
    /\ nextSym = 1
    /\ uses = (1 :> 0 @@ 2 :> 0)

NextLatch ==
    \/ nextSym <= MaxLatchSym /\ Use(2)
    \/ Drop(2)
    \/ nextSym <= MaxLatchSym /\ Tie(2, Recorders)
    \/ Untie(2)
    \/ Trigger(1, LatchValues)
    \/ Reset(1)

SpecLatch == InitLatch /\ [][NextLatch]_vars

\* The latch has taken a value of its target: its _poll is gone.
Latched == ~cells[2]._poll

\* The latch is in use and still waits for its target.
Waiting == cells[2]._users > 0 /\ cells[2]._poll

\* The first value: the target, not ready, is triggered with v and accepts it.
Adopts(v) ==
    LET w == trigger(World, 1, v)
    IN (Waiting /\ ~cells[1]._ready /\ ~Threw(w) /\ w.cells[1]._ready)
       => /\ w.cells[2]._ready /\ w.cells[2]._value = v /\ ~w.cells[2]._poll
          /\ \A i \in 1..Len(cells[2]._subscribers) :
                IF equivalent(v, LatchDefault)
                THEN Len(SelectSeq(EventsOf(w.calls, "tie", 2), LAMBDA e : e.id = cells[2]._subscribers[i].id)) = 0
                ELSE CalledOnceWith(w.calls, 2, cells[2]._subscribers[i].id, v)

\* What the target does later leaves the latch as it is.
Keeps(w) ==
    Latched => /\ w.cells[2]._ready = cells[2]._ready
               /\ w.cells[2]._value = cells[2]._value
               /\ EventsOf(w.calls, "tie", 2) = <<>>

\* C27: a latch with default d over a target is, while in use and waiting,
\* ready with d; the first value v the target is ready with becomes the
\* value of the latch, its observers being called once with v; a latch that
\* has taken a value has no notifier on its target and no use of it, and no
\* later trigger or reset of the target changes its value or readiness.
C27_LatchTakesFirstValue ==
    /\ Waiting => cells[2]._ready /\ cells[2]._value = LatchDefault
    /\ \A v \in LatchValues : Adopts(v)
    /\ Latched => cells[1]._notifies = <<>> /\ cells[1]._users = 0
    /\ \A v \in LatchValues : Keeps(trigger(World, 1, v))
    /\ Keeps(reset(World, 1))

\* A subscriber that throws.
Throwing(c) == \E i \in 1..Len(cells[c]._subscribers) : cells[c]._subscribers[i].does = "throw"

\* Every subscriber that the call has left registered was called during it.
Reached(w) ==
    \A i \in 1..Len(cells[1]._subscribers) :
        HasId(w.cells[1]._subscribers, cells[1]._subscribers[i].id)
            => \E j \in 1..Len(w.calls) :
                  w.calls[j].ev = "tie" /\ w.calls[j].id = cells[1]._subscribers[i].id

\* C28: a trigger during which a subscriber throws still calls the other
\* subscribers and clears _triggering, so that no cell is left with
\* _triggering set and the next trigger is applied.
C28_ThrowingObserverIsolated ==
    /\ cells[1]._triggering = Null
    /\ \A v \in ObserveValues :
          LET w == trigger(World, 1, v)
          IN (Throwing(1) /\ EventsOf(w.calls, "tie", 1) # <<>>)
                => Reached(w) /\ w.cells[1]._triggering = Null /\ w.cells[1]._value = v

\* What an application can observe of a cell: readiness, value, the
\* registered functions and the user count.
Outward(cell) ==
    <<cell._ready, cell._value, cell._subscribers, cell._notifies, cell._thens, cell._users>>

\* C29: use() immediately followed by drop() leaves the readiness, the
\* value, the registered functions and the user count of the cell as they
\* were.
C29_UseDropNoOp ==
    \A c \in DOMAIN cells :
        LET w == drop(use(World, c), c)
        IN ~Threw(w) => Outward(w.cells[c]) = Outward(cells[c])

\* Nothing is left for the browser to run: no storage event is to be
\* delivered, no job is queued and no timer is set. From such a state only a
\* further call of the application goes on.
Quiescent ==
    /\ \A tab \in Tabs : events[tab] = <<>>
    /\ jobs = <<>>
    /\ intervals = Empty /\ privateTestIntervals = Empty

\* The cell has no user and its initialise hook has acquired what its
\* finalise hook has not released.
Abandoned(c) == cells[c]._users = 0 /\ cells[c].resource = "held"

\* C30: a cell with a cache identity whose initialise hook has run as the
\* primary and whose last user is gone has its finalise hook invoked in the
\* end, also when the application never calls again: once nothing is left
\* to run, no such cell still holds what its initialise hook acquired.
C30_PrimaryReleased == Quiescent => \A c \in Cached : ~Abandoned(c)

\* ---------------------------------------------------------------------
\* Spook.promise over lists of a plain value, a cell (1) and a Promise (1);
\* the Promise it returns is 2.
MaxList == 2
ListItems == {Num(1), SpookRef(1), Promise(1)}
Lists == UNION {[1..n -> ListItems] : n \in 0..MaxList}
Listed == 2

InitPromise ==
    /\ \E mayBeNull \in BOOLEAN : cells = (1 :> Spook(mayBeNull, NoUuid, 1))
    /\ storage = Empty
    /\ caches = (1 :> SpookCache("s1", ""))
    /\ events = (1 :> <<>>)
    /\ posted = (1 :> <<>>)
    /\ privateTestIntervals = Empty
    /\ useTestIntervals = FALSE
    /\ intervals = Empty
    /\ racing = {}
    /\ promises = (1 :> [state |-> "pending", result |-> Undefined, _value |-> Undefined,
                         reactions |-> <<>>])
    /\ jobs = <<>>
    /\ parent = Empty
    /\ spooks = Empty
    /\ inbox = Empty
    /\ nextSym = 1
    /\ uses = (1 :> 0)

NextPromise ==
    \/ Listed \notin DOMAIN promises /\ PromiseOf(Lists)
    \/ Trigger(1, Numbers)
    \/ Reset(1)
    \/ Resolve(1, Numbers)
    \/ Reject(1)
    \/ Settle

SpecPromise == InitPromise /\ [][NextPromise]_vars

\* Item i of the list has resolved: a plain value at once, a cell when the
\* function registered with then() has been called, a Promise when it is
\* fulfilled and its reaction has run.
ItemResolved(i) ==
    LET x == promises[Listed].list[i]
    IN CASE x.t = "spook" ->
                ~\E j \in 1..Len(cells[x.id]._thens) :
                    cells[x.id]._thens[j].fn = "promise_done" /\ cells[x.id]._thens[j].arg = i
         [] x.t = "promise" ->
                /\ promises[x.id].state = "fulfilled"
                /\ ~\E j \in 1..Len(jobs) : jobs[j].promise = x.id /\ jobs[j].callback.index = i
         [] OTHER -> TRUE

\* A Promise of the list is rejected and its reactions have run.
ItemRejected ==
    \E i \in 1..Len(promises[Listed].list) :
        LET x == promises[Listed].list[i]
        IN x.t = "promise" /\ promises[x.id].state = "rejected" /\ jobs = <<>>

\* The result holds, in the order of the list, the plain values, the results
\* of the Promises and a value for each cell.
Ordered(result) ==
    /\ result.t = "array" /\ Len(result.items) = Len(promises[Listed].list)
    /\ \A i \in 1..Len(promises[Listed].list) :
          LET x == promises[Listed].list[i]
          IN CASE x.t = "spook" -> result.items[i] \in Numbers
               [] x.t = "promise" -> result.items[i] = promises[x.id].result
               [] OTHER -> result.items[i] = x

\* C31: the Promise of Spook.promise(list) is fulfilled with the ordered
\* list of the resolved values once every item of the list, of any length,
\* has resolved, and is rejected once a Promise of the list is rejected.
C31_PromiseCompletes ==
    Listed \in DOMAIN promises =>
        /\ (\A i \in 1..Len(promises[Listed].list) : ItemResolved(i))
              => promises[Listed].state = "fulfilled" /\ Ordered(promises[Listed].result)
        /\ ItemRejected => promises[Listed].state = "rejected"

\* ---------------------------------------------------------------------
\* A transform cell (2) over a plain cell (1) whose function returns, at each
\* call, a new Promise that is fulfilled with the argument of the call.
MaxPromises == 3
MaxDeferSym == 3
Source == 1
Deferred == 2

InitDefer ==
    /\ \E latched \in BOOLEAN :
          cells = <<Spook(TRUE, NoUuid, 1),
                    TransformSpook("defer", <<SpookRef(Source)>>, <<>>, 3, 3, NoUuid,
                                   latched, TRUE, 1)>>
    /\ storage = Empty
    /\ caches = (1 :> SpookCache("s1", ""))
    /\ events = (1 :> <<>>)
    /\ posted = (1 :> <<>>)
    /\ privateTestIntervals = Empty
    /\ useTestIntervals = FALSE
    /\ intervals = Empty
    /\ racing = {}
    /\ promises = Empty
    /\ jobs = <<>>
    /\ parent = Empty
    /\ spooks = Empty
    /\ inbox = Empty
    /\ nextSym = 1
    /\ uses = <<0, 0>>

NextDefer ==
    \/ nextSym <= MaxDeferSym /\ Cardinality(DOMAIN promises) < MaxPromises /\ Tie(Deferred, Recorders)
    \/ Untie(Deferred)
    \/ Cardinality(DOMAIN promises) < MaxPromises /\ Trigger(Source, Numbers)
    \/ \E p \in DOMAIN promises : Resolve(p, {promises[p].of})
    \/ Settle

SpecDefer == InitDefer /\ [][NextDefer]_vars

\* Every Promise the function has returned is fulfilled and its reaction
\* has run.
AllResolved == jobs = <<>> /\ \A p \in DOMAIN promises : promises[p].state = "fulfilled"

\* C32: every value of the transform cell is the result of a Promise its
\* function returned for a past value of the input, and once the input is
\* ready and every Promise is fulfilled, in whatever order, the transform
\* cell in use is ready with the result for the input's current value.
C32_FollowsLatestInput ==
    /\ cells[Deferred]._ready
          => \E p \in DOMAIN promises :
                promises[p].state = "fulfilled" /\ promises[p].result = cells[Deferred]._value
    /\ (cells[Deferred]._users > 0 /\ cells[Source]._ready /\ AllResolved)
          => cells[Deferred]._ready /\ cells[Deferred]._value = cells[Source]._value

\* ---------------------------------------------------------------------
\* A transform cell (2) without arguments whose function returns a structure
\* holding the cell 1 at nesting level 1, 2 or 3, with an output resolution
\* depth of 0 to 3.
MaxDepth == 3
MaxDepthSym == 4
Nesting == 2
Levels == (1 :> "level1" @@ 2 :> "level2" @@ 3 :> "level3")

InitDepth ==
    /\ \E k \in DOMAIN Levels, d \in 0..MaxDepth :
          cells = <<Spook(TRUE, NoUuid, 1),
                    TransformSpook(Levels[k], <<>>, <<>>, d, 1, NoUuid, FALSE, TRUE, 1)>>
    /\ storage = Empty
    /\ caches = (1 :> SpookCache("s1", ""))
    /\ events = (1 :> <<>>)
    /\ posted = (1 :> <<>>)
    /\ privateTestIntervals = Empty
    /\ useTestIntervals = FALSE
    /\ intervals = Empty
    /\ racing = {}
    /\ promises = Empty
    /\ jobs = <<>>
    /\ parent = Empty
    /\ spooks = Empty
    /\ inbox = Empty
    /\ nextSym = 1
    /\ uses = <<0, 0>>

NextDepth ==
    \/ nextSym <= MaxDepthSym /\ Use(Nesting)
    \/ uses[Nesting] > 0 /\ Drop(Nesting)
    \/ Trigger(Returned, Numbers)
    \/ Reset(Returned)

SpecDepth == InitDepth /\ [][NextDepth]_vars

\* The nesting level of the returned cell, and whether it is within the
\* output resolution depth.
Level == CHOOSE k \in DOMAIN Levels : Levels[k] = cells[Nesting].transform
Within == Level <= cells[Nesting].outResolveDepth

\* C33: a transform cell in use whose function returns a structure with a
\* cell at level k: with k within the output resolution depth it is ready
\* only with the structure in which a value of the cell stands for the
\* cell, and with the current value whenever the cell is ready; with k
\* beyond the depth it is ready with the structure holding the cell itself,
\* and the cell has no notifier and no user.
C33_ResolvesToDepth ==
    cells[Nesting]._users > 0 =>
        IF Within
        THEN /\ cells[Nesting]._ready
                  => \E v \in Numbers : cells[Nesting]._value = nest(v, Level)
             /\ cells[Returned]._ready
                  => /\ cells[Nesting]._ready
                     /\ cells[Nesting]._value = nest(cells[Returned]._value, Level)
             /\ Len(cells[Returned]._notifies) = 1
        ELSE /\ cells[Nesting]._ready
             /\ cells[Nesting]._value = nest(SpookRef(Returned), Level)
             /\ cells[Returned]._notifies = <<>> /\ cells[Returned]._users = 0

\* The cell at level 2 has been resolved with an output resolution depth of 2.
C33_Witness ==
    /\ cells[Nesting]._users > 0 /\ Level = 2 /\ cells[Nesting].outResolveDepth = 2
    /\ cells[Returned]._ready /\ cells[Returned]._value = Num(2)
    /\ cells[Nesting]._ready /\ cells[Nesting]._value = nest(Num(2), 2)

\* ---------------------------------------------------------------------
\* A transform cell (4) over a plain cell (1) whose function returns one of
\* two plain cells (2 and 3) according to its argument; the cells from 5 on
\* are the ones the transform cell makes to resolve what was returned.
MaxInner == 3
MaxSelectSym == 6
Selector == 1
Selecting == 4

InitSelect ==
    /\ \E latched \in BOOLEAN :
          cells = <<Spook(TRUE, NoUuid, 1), Spook(TRUE, NoUuid, 1), Spook(TRUE, NoUuid, 1),
                    TransformSpook("select", <<SpookRef(Selector)>>, <<>>, 3, 3, NoUuid,
                                   latched, TRUE, 1)>>
    /\ storage = Empty
    /\ caches = (1 :> SpookCache("s1", ""))
    /\ events = (1 :> <<>>)
    /\ posted = (1 :> <<>>)
    /\ privateTestIntervals = Empty
    /\ useTestIntervals = FALSE
    /\ intervals = Empty
    /\ racing = {}
    /\ promises = Empty
    /\ jobs = <<>>
    /\ parent = Empty
    /\ spooks = Empty
    /\ inbox = Empty
    /\ nextSym = 1
    /\ uses = <<0, 0, 0, 0>>

\* Another cell can still be made, and another Symbol taken.
Spare == Cardinality(DOMAIN cells) < Selecting + MaxInner /\ nextSym + 1 <= MaxSelectSym

NextSelect ==
    \/ Spare /\ Use(Selecting)
    \/ uses[Selecting] > 0 /\ Drop(Selecting)
    \/ Spare /\ Trigger(Selector, Numbers)
    \/ Reset(Selector)
    \/ \E c \in {First, Second} : Trigger(c, Numbers)
    \/ \E c \in {First, Second} : Reset(c)

SpecSelect == InitSelect /\ [][NextSelect]_vars

\* The cell the function returns for the current argument, and the other one.
Chosen == IF cells[Selector]._value = Num(1) THEN First ELSE Second
Unchosen == IF cells[Selector]._value = Num(1) THEN Second ELSE First

\* The cells the transform cell has made to resolve what its function returned.
Resolving == {c \in DOMAIN cells : c > Selecting}

\* C34: a transform cell in use whose function returns a cell has the value
\* of that cell whenever it is ready; the cell returned by an earlier run
\* has no user and no notifier left, and its changes leave the transform
\* cell as it is; and at most one of the resolving cells is in use.
C34_FollowsReturnedCell ==
    /\ (cells[Selecting]._users > 0 /\ cells[Selector]._ready)
          => /\ cells[Chosen]._ready
                  => /\ cells[Selecting]._ready
                     /\ cells[Selecting]._value = cells[Chosen]._value
             /\ cells[Unchosen]._users = 0 /\ cells[Unchosen]._notifies = <<>>
             /\ \A v \in Numbers :
                   trigger(World, Unchosen, v).cells[Selecting] = cells[Selecting]
    /\ Cardinality({c \in Resolving : cells[c]._users > 0}) <= 1

\* The function has returned the second cell after the first one, and the
\* transform cell has the value of the second.
C34_Witness ==
    /\ cells[Selecting]._users > 0 /\ Cardinality(Resolving) >= 2
    /\ cells[Selecting + 1]._args = <<SpookRef(First)>>
    /\ cells[Selector]._ready /\ Chosen = Second
    /\ cells[First]._ready /\ cells[Second]._ready
    /\ cells[First]._value # cells[Second]._value
    /\ cells[Selecting]._value = cells[Second]._value

\* The Promise returned by the latest run of the function.
Latest == Cardinality(DOMAIN promises)

\* The call has run the function of the transform cell.
Recomputed(w, c) == EventsOf(w.calls, "execute", c) # <<>>

\* C35: when a ready transform cell in use recomputes and its function
\* returns a Promise that is not yet fulfilled, a latched cell stays ready
\* with its previous value and a cell that is not latched becomes not
\* ready; and the cell that is not latched is not ready as long as the
\* Promise of its latest run is pending.
C35_LatchedKeepsValue ==
    /\ \A v \in Numbers :
          LET w == trigger(World, Source, v)
          IN (cells[Deferred]._users > 0 /\ cells[Deferred]._ready /\ Recomputed(w, Deferred))
                => IF cells[Deferred].latched
                   THEN /\ w.cells[Deferred]._ready
                        /\ w.cells[Deferred]._value = cells[Deferred]._value
                   ELSE ~w.cells[Deferred]._ready
    /\ (/\ cells[Deferred]._users > 0 /\ ~cells[Deferred].latched
        /\ Latest > 0 /\ promises[Latest].state = "pending")
          => ~cells[Deferred]._ready

\* What a call has posted to the parent of the frame, and whether the
\* registration of the UUID is deferred.
Sent(w, tab) == SubSeq(w.posted[tab], Len(posted[tab]) + 1, Len(w.posted[tab]))
IsDeferred(w, tab) == HasReg(w, tab, "p/x") /\ Reg(w, tab, "p/x").deferred
LocalUsers(tab) == {c \in MirrorCells : cells[c].tab = tab /\ cells[c]._users > 0}

\* A call posts useSpook only while the registration is not deferred and
\* dropSpook only while it is, one message at most, and the registration
\* is deferred afterwards exactly when the message was useSpook.
Alternates(w, tab) ==
    /\ Sent(w, tab) \in IF IsDeferred(World, tab)
                        THEN {<<>>, <<[dropSpook |-> "p/x"]>>}
                        ELSE {<<>>, <<[useSpook |-> "p/x"]>>}
    /\ IsDeferred(w, tab) = (IsDeferred(World, tab) # (Sent(w, tab) # <<>>))

\* C36: the messages a frame posts to its parent for a UUID under the
\* prefix alternate useSpook, dropSpook, beginning with useSpook: useSpook
\* is posted by the use() of the first local cell, dropSpook by the drop()
\* of the last one or by the unload of the frame, nothing by another use()
\* or drop(), and the registration is deferred exactly after a useSpook.
C36_UseDropAlternate ==
    /\ \A tab \in Frames : IsDeferred(World, tab) = (LocalUsers(tab) # {})
    /\ \A c \in MirrorCells :
          LET tab == cells[c].tab
              used == use(World, c)
              dropped == drop(World, c)
          IN /\ Alternates(used, tab)
             /\ (Sent(used, tab) # <<>>) = (LocalUsers(tab) = {})
             /\ cells[c]._users > 0
                   => /\ Alternates(dropped, tab)
                      /\ (Sent(dropped, tab) # <<>>)
                            = (LocalUsers(tab) = {c} /\ cells[c]._users = 1)
    /\ \A tab \in Frames :
          /\ Alternates(onUnload(World, tab), tab)
          /\ (Sent(onUnload(World, tab), tab) # <<>>) = IsDeferred(World, tab)
          /\ inbox[tab] # <<>>
                => Sent(SpookCache_onMessage(World, tab, ProxyWindow, Head(inbox[tab])), tab) = <<>>

\* Both frames have posted useSpook and the parent has received it; the
\* second cell of a frame has been used without a message.
C36_Witness ==
    /\ IsDeferred(World, 2) /\ IsDeferred(World, 3)
    /\ Cardinality(LocalUsers(2)) = 2
    /\ InFlight(Windows) = 0 /\ nextSym > 2

\* No window has a change of the store still to be told of.
Steady == \A tab \in Tabs : events[tab] = <<>>

\* C37: in a steady state the consistency check of a live cache finds no
\* registration that is owned without a primary, and none with users, no
\* primary and no deferral while the owner key of the store is absent or
\* holds the session id of this cache.
C37_ConsistencyHolds ==
    Steady => \A tab \in Tabs :
                 Live(tab) /\ HasReg(World, tab, "u") => ~Inconsistent(World, tab, "u")

\* A steady state in which the first tab has unloaded and the second tab
\* owns the UUID with cell 3 as its primary, the owner key of the store
\* holding its session id.
C37_Witness ==
    /\ Steady
    /\ ~Live(1) /\ Live(2)
    /\ HasReg(World, 2, "u")
    /\ Reg(World, 2, "u").primary = 3 /\ Reg(World, 2, "u").owned
    /\ storage[OwnerKey("u")] = caches[2].sessionId

\* C38: a transform cell that is in use is not ready while its input cell
\* is not ready, whatever happens to the cells its function returned in
\* earlier runs.
C38_NotReadyWhileInputNotReady ==
    cells[Selecting]._users > 0 /\ ~cells[Selector]._ready => ~cells[Selecting]._ready

\* ---------------------------------------------------------------------
\* One cell whose readiness-notifiers tie a function to it when they are
\* called: cell.notify(() => { cell.tie(f) }).

MaxTieSym == 5

Tying == {Callback("user", NoSpook, "tie", Undefined)}

InitTying ==
    /\ \E mayBeNull \in BOOLEAN : cells = (1 :> Spook(mayBeNull, NoUuid, 1))
    /\ storage = Empty
    /\ caches = (1 :> SpookCache("s1", ""))
    /\ events = (1 :> <<>>)
    /\ posted = (1 :> <<>>)
    /\ privateTestIntervals = Empty
    /\ useTestIntervals = FALSE
    /\ intervals = Empty
    /\ racing = {}
    /\ promises = Empty
    /\ jobs = <<>>
    /\ parent = Empty
    /\ spooks = Empty
    /\ inbox = Empty
    /\ nextSym = 1
    /\ uses = (1 :> 0)

\* Symbols are left for the function each notifier of the cell would tie.
SymbolsLeft == nextSym + Len(cells[1]._notifies) <= MaxTieSym

NextTying ==
    \/ nextSym + 1 <= MaxTieSym /\ Notify(1, Tying)
    \/ nextSym <= MaxTieSym /\ Tie(1, Recorders)
    \/ Unnotify(1)
    \/ Untie(1)
    \/ SymbolsLeft /\ Trigger(1, ObserveValues)
    \/ SymbolsLeft /\ Changed(1, ObserveValues)
    \/ Reset(1)

SpecTying == InitTying /\ [][NextTying]_vars

\* The calls trigger(v) makes of the function registered under `id`.
CallsOf(w, id) == SelectSeq(EventsOf(w.calls, "tie", 1), LAMBDA e : e.id = id)

\* C39: one call of trigger invokes the function of each registration of
\* the cell's change-subscribers at most once with the new value, also a
\* function that a readiness-notifier ties while that trigger runs.
C39_SubscriberCalledOnce ==
    \A v \in ObserveValues :
        LET w == trigger(World, 1, v)
        IN \A id \in 1..(w.nextSym - 1) : Len(CallsOf(w, id)) <= 1

\* ---------------------------------------------------------------------
\* The two tabs of SpecCache, whose application also resets its cells.

NextReset ==
    \/ NextCache
    \/ \E c \in Cached : Runs(c) /\ Reset(c)

SpecReset == InitCache /\ [][NextReset]_vars

\* reset() of cell c left the store, the storage events and the readiness
\* and value of every other cell as they were.
Local(w, c) ==
    /\ w.storage = storage
    /\ w.events = events
    /\ \A d \in Cached \ {c} :
          w.cells[d]._ready = cells[d]._ready /\ w.cells[d]._value = cells[d]._value

\* C40: reset() of a cell with a cache identity that is in use and has no
\* default, the primary or a mirror, writes nothing to the shared store and
\* leaves the readiness and the value of every other cell of the UUID as
\* they were.
C40_ResetIsLocal ==
    \A c \in Cached :
        cells[c]._users > 0 /\ cells[c]._defaultTo = Undefined
            => LET w == reset(World, c)
               IN ~Threw(w) /\ ~w.cells[c]._ready /\ Local(w, c)

\* The primary of the first tab is in use and not ready, as its reset
\* leaves it, while the store holds a value for the UUID and the mirrors
\* in both tabs are in use and ready.
C40_Witness ==
    /\ HasReg(World, 1, "u") /\ Reg(World, 1, "u").owned
    /\ \E c \in {1, 2} :
          /\ Reg(World, 1, "u").primary = c
          /\ cells[c]._users > 0 /\ ~cells[c]._ready
          /\ cells[3 - c]._users > 0 /\ cells[3 - c]._ready
    /\ cells[3]._users > 0 /\ cells[3]._ready
    /\ ValueKey("u") \in DOMAIN storage

====
